---- MODULE Spec2Model ----
(***************************************************************************)
(* Verification model of the labor optimizer / auto scheduler services:    *)
(*   python-services/scheduler/auto_scheduler.py                           *)
(*   python-services/labor_optimizer/services/*.py, core/*.py, db.py       *)
(* Each component of the batch pipeline has its own specification over     *)
(* the shared variable list; the variables of the other components stay    *)
(* at their idle values.                                                   *)
(*                                                                         *)
(* Units: clock times are minutes of the day, durations of shifts are      *)
(* quarter hours, percentiles are hundredths of a cover, dates are day     *)
(* numbers (weekday = day number modulo 7).                                *)
(***************************************************************************)
EXTENDS Integers, Sequences, FiniteSets, Bags, TLC

VARIABLES
    \* ---- _compute_shift_waves ----
    hourly_counts,      \* the hour -> on-floor count curve handed in
    setup_min,          \* minutes before the hour staff arrive
    teardown_min,       \* minutes after the cut hour staff stay
    waves,              \* the returned list of waves
    wavesDone,          \* the function has returned
    \* ---- AutoScheduler.generate_schedule (greedy assignment) ----
    employees,          \* self.employees, in load order
    requirements,       \* self.requirements handed to the greedy fill
    manager_adjustments, \* self.manager_adjustments: (position, shift, weekday) -> +1 / -1
    sorted_reqs,        \* sorted(self.requirements, key=req_priority)
    emp_weekly_hours,   \* employee id -> hours assigned so far
    emp_daily_shifts,   \* employee id -> date -> shifts that date
    schedule_assignments,
    total_hours,
    total_cost,
    unfilled,
    eligible_sorted,    \* the candidates of the requirement being filled
    assigned_count,
    ri,                 \* index of the requirement being filled
    ei,                 \* index of the candidate being examined
    schedPc,            \* "idle", "sort", "req", "emp", "done"
    schedResult,        \* what generate_schedule returned
    \* ---- labor optimizer: the persistent store and the clock ----
    today,              \* date.today()
    hourly_snapshots,   \* table hourly_snapshots (a bag of rows)
    staffing_profiles,  \* table staffing_profiles
    backtest_results,   \* table backtest_results
    train_weeks,        \* the train_weeks of the last rolling_backtest call
    rolling_results,    \* what the last rolling_backtest returned
    backtest_runs,      \* backtest_date commands that stored a result
    builds,             \* build_profiles runs between their read and their write
    \* ---- AutoScheduler.save_schedule ----
    weekly_schedules,   \* table weekly_schedules (rows have an id)
    shift_assignments,  \* table shift_assignments
    next_id,            \* the id the store gives the next weekly_schedules row
    schedule_data,      \* the argument of the run in progress
    existing,           \* ids selected for removal, not yet removed
    schedule_id,        \* id of the row this run inserted (its return value)
    savePc,             \* "idle", "select", "delete_shifts", "delete_schedule",
                        \* "insert_schedule", "insert_shifts", "done", "abandoned"
    runs,               \* save_schedule runs started
    abandoned,          \* runs abandoned part-way
    \* ---- AlertMonitor ----
    staffing_alerts,    \* table staffing_alerts
    alert_runs,         \* check_date runs made
    \* ---- ForecastGenerator ----
    daily_staffing_forecasts,   \* table daily_staffing_forecasts
    seasonal_calendar,  \* table seasonal_calendar
    forecast_runs,      \* generate_forecast runs that wrote forecasts
    \* ---- POS import and SnapshotBuilder from checks ----
    pos_checks,         \* table pos_checks
    location_config,    \* the venue's active location_config row, if any
    last_snapshots,     \* what the build_snapshots call just made returned
    \* ---- a pure function under evaluation ----
    call_args,          \* the arguments it is called with
    call_result         \* what it returned

wavesVars == <<hourly_counts, setup_min, teardown_min, waves, wavesDone>>

schedVars == <<employees, requirements, manager_adjustments, sorted_reqs, emp_weekly_hours,
               emp_daily_shifts, schedule_assignments, total_hours, total_cost,
               unfilled, eligible_sorted, assigned_count, ri, ei, schedPc,
               schedResult>>

profVars == <<today, hourly_snapshots, staffing_profiles, backtest_results,
              train_weeks, rolling_results, backtest_runs, builds>>

saveVars == <<weekly_schedules, shift_assignments, next_id, schedule_data, existing,
              schedule_id, savePc, runs, abandoned>>

alertVars == <<staffing_alerts, alert_runs>>

fcVars == <<daily_staffing_forecasts, seasonal_calendar, forecast_runs>>

storeVars == <<profVars, saveVars, alertVars, fcVars>>

posVars == <<pos_checks, location_config, last_snapshots>>

callVars == <<call_args, call_result>>

vars == <<wavesVars, schedVars, storeVars, posVars, callVars>>

(***************************************************************************)
(* Generic helpers                                                         *)
(***************************************************************************)
\* Python None / a present value: the empty and the one-element sequence
NoneVal == <<>>
Some(x) == <<x>>
Get(o) == o[1]

Min2(a, b) == IF a <= b THEN a ELSE b
Max2(a, b) == IF a >= b THEN a ELSE b

RECURSIVE SumSeq(_)
SumSeq(s) == IF s = <<>> THEN 0 ELSE Head(s) + SumSeq(Tail(s))

RECURSIVE SortedInts(_)
SortedInts(S) ==
    IF S = {} THEN <<>>
    ELSE LET m == CHOOSE x \in S : \A y \in S : x <= y
         IN  <<m>> \o SortedInts(S \ {m})

(***************************************************************************)
(* Idle values of the store: empty tables                                  *)
(***************************************************************************)
SaveIdle ==
    /\ weekly_schedules = {}
    /\ shift_assignments = EmptyBag
    /\ next_id = 1
    /\ schedule_data = NoneVal
    /\ existing = <<>>
    /\ schedule_id = NoneVal
    /\ savePc = "idle"
    /\ runs = 0
    /\ abandoned = 0

ProfilesIdle ==
    /\ today = 0
    /\ hourly_snapshots = EmptyBag
    /\ staffing_profiles = EmptyBag
    /\ backtest_results = EmptyBag
    /\ train_weeks = 0
    /\ rolling_results = <<>>
    /\ backtest_runs = 0
    /\ builds = <<>>

AlertsIdle ==
    /\ staffing_alerts = EmptyBag
    /\ alert_runs = 0

ForecastIdle ==
    /\ daily_staffing_forecasts = EmptyBag
    /\ seasonal_calendar = {}
    /\ forecast_runs = 0

StoreIdle == ProfilesIdle /\ SaveIdle /\ AlertsIdle /\ ForecastIdle

PosIdle ==
    /\ pos_checks = EmptyBag
    /\ location_config = NoneVal
    /\ last_snapshots = NoneVal

CallIdle ==
    /\ call_args = NoneVal
    /\ call_result = NoneVal

(***************************************************************************)
(* Idle values of the scheduler variables                                  *)
(***************************************************************************)
SchedIdle ==
    /\ employees = <<>>
    /\ requirements = <<>>
    /\ manager_adjustments = <<>>
    /\ sorted_reqs = <<>>
    /\ emp_weekly_hours = <<>>
    /\ emp_daily_shifts = <<>>
    /\ schedule_assignments = <<>>
    /\ total_hours = 0
    /\ total_cost = 0
    /\ unfilled = 0
    /\ eligible_sorted = <<>>
    /\ assigned_count = 0
    /\ ri = 0
    /\ ei = 0
    /\ schedPc = "idle"
    /\ schedResult = NoneVal

(***************************************************************************)
(* HOURLY WAVE SCHEDULING  (auto_scheduler.py, _compute_shift_waves)       *)
(***************************************************************************)
MinutesPerHour == 60
HoursPerDay == 24
MinutesPerDay == HoursPerDay * MinutesPerHour

\* arrivals / departures built from the hour-over-hour deltas (the for loop)
RECURSIVE DeltaEvents(_, _, _, _)
DeltaEvents(hc, hours, prev, ev) ==
    IF hours = <<>> THEN [arrivals |-> ev.arrivals, departures |-> ev.departures, prev |-> prev]
    ELSE LET h   == Head(hours)
             cur == hc[h]
         IN  IF cur > prev
             THEN DeltaEvents(hc, Tail(hours), cur,
                    [ev EXCEPT !.arrivals = Append(@, <<h, cur - prev>>)])
             ELSE IF cur < prev
             THEN DeltaEvents(hc, Tail(hours), cur,
                    [ev EXCEPT !.departures = Append(@, <<h, prev - cur>>)])
             ELSE DeltaEvents(hc, Tail(hours), cur, ev)

\* a mutant: the staff left at the end leave at the last data point itself
FinalDepartureAtLastHour(hours, prev, departures) ==
    IF prev > 0 THEN Append(departures, <<hours[Len(hours)], prev>>)
    ELSE departures

\* anyone still on the floor at the end departs one hour after the last point
FinalDeparture(hours, prev, departures) ==
    IF prev > 0 THEN Append(departures, <<hours[Len(hours)] + 1, prev>>)
    ELSE departures

\* round((e_total - s_total) / 60, 2), in hundredths of an hour
RoundHours2(minutes) == (5 * minutes + 1) \div 3

\* one wave record; start/end are the HH:MM strings, kept as hour and minute
MakeWave(take, arr_h, dep_h, setup, teardown) ==
    LET s_total == arr_h * MinutesPerHour - setup
        e_total == dep_h * MinutesPerHour + teardown
    IN  [count   |-> take,
         start   |-> [h |-> (s_total \div MinutesPerHour) % HoursPerDay,
                      m |-> s_total % MinutesPerHour],
         end     |-> [h |-> (e_total \div MinutesPerHour) % HoursPerDay,
                      m |-> e_total % MinutesPerHour],
         hours   |-> RoundHours2(e_total - s_total)]

\* FIFO match: the for loop over departures and its inner while loop
RECURSIVE MatchDepartures(_, _, _, _, _)
RECURSIVE MatchWhile(_, _, _, _, _, _, _)
MatchDepartures(departures, queue, ws, setup, teardown) ==
    IF departures = <<>> THEN ws
    ELSE MatchWhile(Head(departures)[1], Head(departures)[2], Tail(departures),
                    queue, ws, setup, teardown)

MatchWhile(dep_h, remaining, rest, queue, ws, setup, teardown) ==
    IF remaining > 0 /\ queue # <<>>
    THEN LET arr_h == Head(queue)[1]
             avail == Head(queue)[2]
             take  == Min2(remaining, avail)
             q2    == IF avail - take <= 0 THEN Tail(queue)
                      ELSE <<<<arr_h, avail - take>>>> \o Tail(queue)
         IN  MatchWhile(dep_h, remaining - take, rest, q2,
                        Append(ws, MakeWave(take, arr_h, dep_h, setup, teardown)),
                        setup, teardown)
    ELSE MatchDepartures(rest, queue, ws, setup, teardown)

\* a mutant: the departures are matched to the latest arrivals first
ComputeShiftWavesLifo(hc, setup, teardown) ==
    LET hours == SortedInts(DOMAIN hc)
    IN  IF hours = <<>> THEN <<>>
        ELSE LET ev   == DeltaEvents(hc, hours, 0, [arrivals |-> <<>>, departures |-> <<>>])
                 deps == FinalDeparture(hours, ev.prev, ev.departures)
             IN  MatchDepartures(deps, [k \in DOMAIN ev.arrivals |-> ev.arrivals[Len(ev.arrivals) + 1 - k]], <<>>, setup, teardown)

ComputeShiftWaves(hc, setup, teardown) ==
    LET hours == SortedInts(DOMAIN hc)
    IN  IF hours = <<>> THEN <<>>
        ELSE LET ev   == DeltaEvents(hc, hours, 0, [arrivals |-> <<>>, departures |-> <<>>])
                 deps == FinalDeparture(hours, ev.prev, ev.departures)
             IN  MatchDepartures(deps, ev.arrivals, <<>>, setup, teardown)

\* ---- bounds and inputs of the wave specification ----
MaxCount == 2
MaxCurveLen == 3
SetupChoices == {0, 30}
TeardownChoices == {0, 45}
ExampleCurve == (15 :> 3) @@ (16 :> 5) @@ (17 :> 5) @@ (18 :> 2) @@ (19 :> 0)

Curves ==
    UNION { [ (s .. s + n - 1) -> 0 .. MaxCount ] :
              s \in 0 .. HoursPerDay - 1, n \in 1 .. MaxCurveLen }

ValidCurve(hc) == \A h \in DOMAIN hc : h \in 0 .. HoursPerDay - 1

WavesIdle ==
    /\ hourly_counts = <<>>
    /\ setup_min = 0
    /\ teardown_min = 0
    /\ waves = <<>>
    /\ wavesDone = FALSE

InitWaves ==
    /\ SchedIdle
    /\ StoreIdle
    /\ PosIdle
    /\ CallIdle
    /\ hourly_counts \in { hc \in Curves : ValidCurve(hc) } \cup {ExampleCurve}
    /\ setup_min \in SetupChoices
    /\ teardown_min \in TeardownChoices
    /\ waves = <<>>
    /\ wavesDone = FALSE

CallComputeShiftWaves ==
    /\ ~wavesDone
    /\ waves' = ComputeShiftWaves(hourly_counts, setup_min, teardown_min)
    /\ wavesDone' = TRUE
    /\ UNCHANGED <<hourly_counts, setup_min, teardown_min>>
    /\ UNCHANGED <<schedVars, storeVars, posVars, callVars>>

NextWaves == CallComputeShiftWaves

SpecWaves == InitWaves /\ [][NextWaves]_vars

\* ---- reading a returned wave back (as _build_shift_datetimes reads the
\* HH:MM pair: an end at or before the start is on the next day) ----
ClockMinutes(t) == t.h * MinutesPerHour + t.m
WaveArrival(w) == (ClockMinutes(w.start) + setup_min) % MinutesPerDay
WaveDepartureRaw(w) == (ClockMinutes(w.end) - teardown_min) % MinutesPerDay
WaveDeparture(w) ==
    IF WaveDepartureRaw(w) <= WaveArrival(w)
    THEN WaveDepartureRaw(w) + MinutesPerDay
    ELSE WaveDepartureRaw(w)
OnFloor(w, h) ==
    WaveArrival(w) <= h * MinutesPerHour /\ h * MinutesPerHour < WaveDeparture(w)

RECURSIVE Occupancy(_, _)
Occupancy(ws, h) ==
    IF ws = <<>> THEN 0
    ELSE (IF OnFloor(Head(ws), h) THEN Head(ws).count ELSE 0) + Occupancy(Tail(ws), h)

\* C4: reconstructing occupancy from the returned waves reproduces the input
\* curve at every input hour (consecutive hours, non-negative counts); the
\* curve {15:3,16:5,17:5,18:2,19:0} reconstructs to 3,5,5,2,0.
C4_WavesReconstructCurve ==
    wavesDone => \A h \in DOMAIN hourly_counts : Occupancy(waves, h) = hourly_counts[h]

\* witness: the example curve has been converted with the default setup/teardown
\* and its two-wave result reconstructs 3,5,5,2,0
C4_Witness ==
    /\ wavesDone
    /\ hourly_counts = ExampleCurve
    /\ setup_min = 30 /\ teardown_min = 45
    /\ Len(waves) = 2
    /\ <<Occupancy(waves, 15), Occupancy(waves, 16), Occupancy(waves, 17),
         Occupancy(waves, 18), Occupancy(waves, 19)>> = <<3, 5, 5, 2, 0>>

(***************************************************************************)
(* GREEDY ASSIGNMENT  (auto_scheduler.py, AutoScheduler.generate_schedule) *)
(* Hours are quarter hours (6.5 h = 26), rates are whole dollars.          *)
(***************************************************************************)

\* position names as lower-cased word lists; `f.lower() in pos_name.lower()`
\* is containment of one word list in the other
FIXED_STAFF_POSITIONS ==
    { <<"manager">>, <<"general", "manager">>, <<"assistant", "manager">>,
      <<"shift", "manager">>, <<"expeditor">>, <<"executive", "chef">>,
      <<"sous", "chef">> }

ContainsWords(name, f) ==
    \E i \in 1 .. Len(name) :
        /\ i + Len(f) - 1 <= Len(name)
        /\ SubSeq(name, i, i + Len(f) - 1) = f

IsFixedPosition(pos_name) == \E f \in FIXED_STAFF_POSITIONS : ContainsWords(pos_name, f)

\* the positions table: id -> name, base_hourly_rate
PositionIds == {"pServer", "pManager", "pHost"}
positions ==
    [p \in PositionIds |->
        CASE p = "pServer"  -> [name |-> <<"server">>, base_hourly_rate |-> 15]
          [] p = "pManager" -> [name |-> <<"shift", "manager">>, base_hourly_rate |-> 30]
          [] p = "pHost"    -> [name |-> <<"host">>, base_hourly_rate |-> 14]]

\* POSITION_SHIFT_CONFIGS['dinner'] hours of these positions, in quarter hours
ShiftQuarters(p) ==
    CASE p = "pServer"  -> 26
      [] p = "pManager" -> 32
      [] p = "pHost"    -> 24

DefaultMaxHours == 160   \* 40 hours
RateScale == 35
cost_weight == 4        \* tenths
quality_weight == 4     \* tenths
RestPenalty5 == 3       \* tenths, added from the 5th day worked
RestPenalty6 == 5       \* tenths, added on top from the 6th day worked

EmployeeIds(emps) == { emps[i].id : i \in 1 .. Len(emps) }
EmpById(emps, id) == emps[CHOOSE i \in 1 .. Len(emps) : emps[i].id = id]

\* emps_by_position[position_id], in load order
RECURSIVE SelectByPosition(_, _)
SelectByPosition(emps, pid) ==
    IF emps = <<>> THEN <<>>
    ELSE (IF Head(emps).primary_position_id = pid THEN <<Head(emps)>> ELSE <<>>)
         \o SelectByPosition(Tail(emps), pid)

\* req_priority: (0 if fixed else 1, business_date, eligible_count)
ReqPriority(req, emps) ==
    <<IF IsFixedPosition(positions[req.position_id].name) THEN 0 ELSE 1,
      req.business_date,
      Len(SelectByPosition(emps, req.position_id))>>

TupleLess(a, b) ==
    \E i \in 1 .. Len(a) :
        /\ a[i] < b[i]
        /\ \A j \in 1 .. i - 1 : a[j] = b[j]

\* sorted(..., key=req_priority): stable
InsertReq(acc, r, emps) ==
    LET k == Cardinality({ j \in 1 .. Len(acc) :
                 ~TupleLess(ReqPriority(r, emps), ReqPriority(acc[j], emps)) })
    IN  SubSeq(acc, 1, k) \o <<r>> \o SubSeq(acc, k + 1, Len(acc))

RECURSIVE SortReqs(_, _, _)
SortReqs(reqs, acc, emps) ==
    IF reqs = <<>> THEN acc
    ELSE SortReqs(Tail(reqs), InsertReq(acc, Head(reqs), emps), emps)

\* _score_employee as a fraction num/den (lower is better), in tenths
DaysWorked(daily) == Cardinality({ d \in DOMAIN daily : daily[d] > 0 })

ScoreMax(emp) ==
    IF emp.max_hours_per_week = NoneVal \/ emp.max_hours_per_week = Some(0)
    THEN DefaultMaxHours
    ELSE Get(emp.max_hours_per_week)

ScoreDen(emp) == IF ScoreMax(emp) > 0 THEN RateScale * ScoreMax(emp) ELSE RateScale

ScoreNum(emp, weekly, days) ==
    LET rate == positions[emp.primary_position_id].base_hourly_rate
        d    == IF ScoreMax(emp) > 0 THEN ScoreMax(emp) ELSE 1
        n    == IF ScoreMax(emp) > 0 THEN weekly ELSE 1
        pen  == (IF days >= 5 THEN RestPenalty5 ELSE 0) + (IF days >= 6 THEN RestPenalty6 ELSE 0)
    IN  cost_weight * rate * d + quality_weight * RateScale * n + pen * RateScale * d

ScoreLess(a, b, weekly, daily) ==
    ScoreNum(a, weekly[a.id], DaysWorked(daily[a.id])) * ScoreDen(b)
        < ScoreNum(b, weekly[b.id], DaysWorked(daily[b.id])) * ScoreDen(a)

\* sorted(eligible, key=emp_sort_key): stable
InsertEmp(acc, e, weekly, daily) ==
    LET k == Cardinality({ j \in 1 .. Len(acc) : ~ScoreLess(e, acc[j], weekly, daily) })
    IN  SubSeq(acc, 1, k) \o <<e>> \o SubSeq(acc, k + 1, Len(acc))

RECURSIVE SortEligible(_, _, _, _)
SortEligible(el, acc, weekly, daily) ==
    IF el = <<>> THEN acc
    ELSE SortEligible(Tail(el), InsertEmp(acc, Head(el), weekly, daily), weekly, daily)

\* max_hours = float(raw_max) if raw_max is not None else 40.0
MaxHours(emp) ==
    IF emp.max_hours_per_week = NoneVal THEN DefaultMaxHours
    ELSE Get(emp.max_hours_per_week)

\* a mutant: the cap is tested before the new shift is added
OverCapBeforeShift(is_fixed_req, weekly, shift_hours, max_hours) ==
    ~is_fixed_req /\ weekly > max_hours

\* `not is_fixed_req and emp_weekly_hours[emp_id] + shift_hours > max_hours`
OverCap(is_fixed_req, weekly, shift_hours, max_hours) ==
    ~is_fixed_req /\ weekly + shift_hours > max_hours

\* a mutant: a second shift on the date is let through
BusyThatDayOffByOne(daily) == daily > 1

\* `daily >= 1`
BusyThatDay(daily) == daily >= 1

DailyGet(daily, date) == IF date \in DOMAIN daily THEN daily[date] ELSE 0

\* ---- inputs of the greedy specification ----
MaxReqs == 2
MaxNeeded == 2
Dates == {1, 2}
SmallCap == 32          \* an 8 hour weekly cap, in quarter hours

ReqSpace ==
    [position_id : PositionIds, business_date : Dates, employees_needed : 0 .. MaxNeeded]

ReqLists == UNION { [1 .. n -> ReqSpace] : n \in 1 .. MaxReqs }

Req(r) == [position_id |-> r.position_id, business_date |-> r.business_date,
           employees_needed |-> r.employees_needed,
           hours_per_employee |-> ShiftQuarters(r.position_id)]

EmployeeLists ==
    { << [id |-> "e1", primary_position_id |-> "pServer",  max_hours_per_week |-> m1],
         [id |-> "e2", primary_position_id |-> "pServer",  max_hours_per_week |-> Some(SmallCap)],
         [id |-> "e3", primary_position_id |-> "pManager", max_hours_per_week |-> m3] >> :
      m1 \in {NoneVal, Some(SmallCap)}, m3 \in {NoneVal, Some(SmallCap)} }

InitSchedule ==
    /\ WavesIdle
    /\ StoreIdle
    /\ PosIdle
    /\ CallIdle
    /\ employees \in EmployeeLists
    /\ \E rl \in ReqLists : requirements = [i \in DOMAIN rl |-> Req(rl[i])]
    /\ manager_adjustments = <<>>
    /\ sorted_reqs = <<>>
    /\ emp_weekly_hours = <<>>
    /\ emp_daily_shifts = <<>>
    /\ schedule_assignments = <<>>
    /\ total_hours = 0
    /\ total_cost = 0
    /\ unfilled = 0
    /\ eligible_sorted = <<>>
    /\ assigned_count = 0
    /\ ri = 0
    /\ ei = 0
    /\ schedPc = "sort"
    /\ schedResult = NoneVal

\* lines 1295-1315: the maps, the priority sort, the counters
SortRequirements ==
    /\ schedPc = "sort"
    /\ emp_weekly_hours' = [id \in EmployeeIds(employees) |-> 0]
    /\ emp_daily_shifts' = [id \in EmployeeIds(employees) |-> <<>>]
    /\ sorted_reqs' = SortReqs(requirements, <<>>, employees)
    /\ ri' = 1
    /\ schedPc' = "req"
    /\ UNCHANGED <<employees, requirements, manager_adjustments, schedule_assignments, total_hours,
                   total_cost, unfilled, eligible_sorted, assigned_count, ei,
                   schedResult>>
    /\ UNCHANGED <<wavesVars, storeVars, posVars, callVars>>

CurReq == sorted_reqs[ri]

\* lines 1328-1331: nobody holds the position
SkipRequirementNoEligible ==
    /\ schedPc = "req"
    /\ ri <= Len(sorted_reqs)
    /\ SelectByPosition(employees, CurReq.position_id) = <<>>
    /\ unfilled' = unfilled + CurReq.employees_needed
    /\ ri' = ri + 1
    /\ UNCHANGED <<employees, requirements, manager_adjustments, sorted_reqs, emp_weekly_hours,
                   emp_daily_shifts, schedule_assignments, total_hours, total_cost,
                   eligible_sorted, assigned_count, ei, schedPc, schedResult>>
    /\ UNCHANGED <<wavesVars, storeVars, posVars, callVars>>

\* lines 1333-1344: candidates sorted by score
BeginRequirement ==
    /\ schedPc = "req"
    /\ ri <= Len(sorted_reqs)
    /\ SelectByPosition(employees, CurReq.position_id) # <<>>
    /\ eligible_sorted' = SortEligible(SelectByPosition(employees, CurReq.position_id),
                                       <<>>, emp_weekly_hours, emp_daily_shifts)
    /\ assigned_count' = 0
    /\ ei' = 1
    /\ schedPc' = "emp"
    /\ UNCHANGED <<employees, requirements, manager_adjustments, sorted_reqs, emp_weekly_hours,
                   emp_daily_shifts, schedule_assignments, total_hours, total_cost,
                   unfilled, ri, schedResult>>
    /\ UNCHANGED <<wavesVars, storeVars, posVars, callVars>>

CurEmp == eligible_sorted[ei]
InnerLoopRuns ==
    /\ schedPc = "emp"
    /\ ei <= Len(eligible_sorted)
    /\ assigned_count < CurReq.employees_needed
CurOverCap ==
    OverCap(IsFixedPosition(positions[CurReq.position_id].name),
            emp_weekly_hours[CurEmp.id], CurReq.hours_per_employee, MaxHours(CurEmp))
CurBusy == BusyThatDay(DailyGet(emp_daily_shifts[CurEmp.id], CurReq.business_date))

\* lines 1353-1354
SkipEmployeeOverCap ==
    /\ InnerLoopRuns
    /\ CurOverCap
    /\ ei' = ei + 1
    /\ UNCHANGED <<employees, requirements, manager_adjustments, sorted_reqs, emp_weekly_hours,
                   emp_daily_shifts, schedule_assignments, total_hours, total_cost,
                   unfilled, eligible_sorted, assigned_count, ri, schedPc, schedResult>>
    /\ UNCHANGED <<wavesVars, storeVars, posVars, callVars>>

\* lines 1356-1358
SkipEmployeeBusyThatDay ==
    /\ InnerLoopRuns
    /\ ~CurOverCap
    /\ CurBusy
    /\ ei' = ei + 1
    /\ UNCHANGED <<employees, requirements, manager_adjustments, sorted_reqs, emp_weekly_hours,
                   emp_daily_shifts, schedule_assignments, total_hours, total_cost,
                   unfilled, eligible_sorted, assigned_count, ri, schedPc, schedResult>>
    /\ UNCHANGED <<wavesVars, storeVars, posVars, callVars>>

\* lines 1360-1383
AssignEmployee ==
    /\ InnerLoopRuns
    /\ ~CurOverCap
    /\ ~CurBusy
    /\ LET emp_id      == CurEmp.id
           date        == CurReq.business_date
           shift_hours == CurReq.hours_per_employee
           hourly_rate == positions[CurEmp.primary_position_id].base_hourly_rate
           daily       == DailyGet(emp_daily_shifts[emp_id], date)
       IN  /\ emp_weekly_hours' = [emp_weekly_hours EXCEPT ![emp_id] = @ + shift_hours]
           /\ emp_daily_shifts' =
                [emp_daily_shifts EXCEPT ![emp_id] = (date :> daily + 1) @@ @]
           /\ total_cost' = total_cost + shift_hours * hourly_rate
           /\ total_hours' = total_hours + shift_hours
           /\ schedule_assignments' = Append(schedule_assignments,
                [employee_id |-> emp_id, position_id |-> CurReq.position_id,
                 business_date |-> date, scheduled_hours |-> shift_hours,
                 hourly_rate |-> hourly_rate, labor_cost |-> shift_hours * hourly_rate])
    /\ assigned_count' = assigned_count + 1
    /\ ei' = ei + 1
    /\ UNCHANGED <<employees, requirements, manager_adjustments, sorted_reqs, unfilled, eligible_sorted,
                   ri, schedPc, schedResult>>
    /\ UNCHANGED <<wavesVars, storeVars, posVars, callVars>>

\* line 1385, after the inner loop ends (break or exhaustion)
EndRequirement ==
    /\ schedPc = "emp"
    /\ ~InnerLoopRuns
    /\ unfilled' = unfilled + (CurReq.employees_needed - assigned_count)
    /\ ri' = ri + 1
    /\ schedPc' = "req"
    /\ UNCHANGED <<employees, requirements, manager_adjustments, sorted_reqs, emp_weekly_hours,
                   emp_daily_shifts, schedule_assignments, total_hours, total_cost,
                   eligible_sorted, assigned_count, ei, schedResult>>
    /\ UNCHANGED <<wavesVars, storeVars, posVars, callVars>>

\* lines 1387-1389
ReturnNoAssignments ==
    /\ schedPc = "req"
    /\ ri > Len(sorted_reqs)
    /\ schedule_assignments = <<>>
    /\ schedResult' = NoneVal
    /\ schedPc' = "done"
    /\ UNCHANGED <<employees, requirements, manager_adjustments, sorted_reqs, emp_weekly_hours,
                   emp_daily_shifts, schedule_assignments, total_hours, total_cost,
                   unfilled, eligible_sorted, assigned_count, ri, ei>>
    /\ UNCHANGED <<wavesVars, storeVars, posVars, callVars>>

\* lines 1391-1409
ReturnSchedule ==
    /\ schedPc = "req"
    /\ ri > Len(sorted_reqs)
    /\ schedule_assignments # <<>>
    /\ schedResult' = Some([assignments |-> schedule_assignments,
                             total_hours |-> total_hours,
                             total_cost |-> total_cost,
                             unfilled_slots |-> unfilled])
    /\ schedPc' = "done"
    /\ UNCHANGED <<employees, requirements, manager_adjustments, sorted_reqs, emp_weekly_hours,
                   emp_daily_shifts, schedule_assignments, total_hours, total_cost,
                   unfilled, eligible_sorted, assigned_count, ri, ei>>
    /\ UNCHANGED <<wavesVars, storeVars, posVars, callVars>>

NextSchedule ==
    \/ SortRequirements
    \/ SkipRequirementNoEligible
    \/ BeginRequirement
    \/ SkipEmployeeOverCap
    \/ SkipEmployeeBusyThatDay
    \/ AssignEmployee
    \/ EndRequirement
    \/ ReturnNoAssignments
    \/ ReturnSchedule

SpecSchedule == InitSchedule /\ [][NextSchedule]_vars

\* ---- properties of the greedy fill ----
AssignmentsOf(as, id) == { i \in 1 .. Len(as) : as[i].employee_id = id }

RECURSIVE HoursOf(_, _)
HoursOf(as, id) ==
    IF as = <<>> THEN 0
    ELSE (IF Head(as).employee_id = id THEN Head(as).scheduled_hours ELSE 0)
         + HoursOf(Tail(as), id)

HourCapExempt(emp) == IsFixedPosition(positions[emp.primary_position_id].name)

CapRespected(as) ==
    \A i \in 1 .. Len(employees) :
        ~HourCapExempt(employees[i]) =>
            HoursOf(as, employees[i].id) <= MaxHours(employees[i])

\* C1: after every step of the greedy fill and in the returned schedule, the
\* scheduled hours of every employee of a non-exempt position sum to at most
\* the employee's max_hours_per_week (40 hours when unset).
C1_WeeklyCapRespected ==
    /\ CapRespected(schedule_assignments)
    /\ (schedPc = "done" /\ schedResult # NoneVal) => CapRespected(Get(schedResult).assignments)

\* witness: two servers were needed on each of two dates; the capped server
\* worked the first date and was passed over on the second (one more shift
\* would exceed the 8 hour cap), leaving one slot unfilled
C1_Witness ==
    /\ schedPc = "done"
    /\ schedResult # NoneVal
    /\ \A j \in 1 .. Len(requirements) :
         requirements[j].position_id = "pServer" /\ requirements[j].employees_needed = 2
    /\ Len(requirements) = 2
    /\ requirements[1].business_date # requirements[2].business_date
    /\ employees[1].max_hours_per_week = NoneVal
    /\ employees[2].max_hours_per_week = Some(SmallCap)
    /\ HoursOf(Get(schedResult).assignments, employees[2].id) = 26
    /\ Len(Get(schedResult).assignments) = 3
    /\ Get(schedResult).unfilled_slots = 1

NoDoubleBooking(as) ==
    \A i, j \in 1 .. Len(as) :
        (i # j /\ as[i].employee_id = as[j].employee_id)
            => as[i].business_date # as[j].business_date

\* C2: the returned schedule never holds two assignments of one employee on
\* one business_date (several requirements of a position on a date, fixed
\* positions included).
C2_OneShiftPerDate ==
    /\ NoDoubleBooking(schedule_assignments)
    /\ (schedPc = "done" /\ schedResult # NoneVal) => NoDoubleBooking(Get(schedResult).assignments)

\* witness: a schedule was returned for two requirements of one position on one
\* date, from which staff were assigned
C2_Witness ==
    /\ schedPc = "done"
    /\ schedResult # NoneVal
    /\ \E i, j \in 1 .. Len(requirements) :
         /\ i # j
         /\ requirements[i].position_id = requirements[j].position_id
         /\ requirements[i].business_date = requirements[j].business_date
         /\ requirements[i].employees_needed > 0
         /\ requirements[j].employees_needed > 0
         /\ \E k \in 1 .. Len(Get(schedResult).assignments) :
              /\ Get(schedResult).assignments[k].position_id = requirements[i].position_id
              /\ Get(schedResult).assignments[k].business_date = requirements[i].business_date

RECURSIVE TotalNeeded(_)
TotalNeeded(reqs) ==
    IF reqs = <<>> THEN 0 ELSE Head(reqs).employees_needed + TotalNeeded(Tail(reqs))

\* C3: every run over a non-empty requirement list reports an unfilled count
\* equal to the total employees_needed minus the assignments made, also when
\* no assignment at all could be made.
C3_UnfilledAlwaysReported ==
    (schedPc = "done" /\ requirements # <<>>) =>
        /\ schedResult # NoneVal
        /\ Get(schedResult).unfilled_slots = TotalNeeded(requirements) - Len(schedule_assignments)

(***************************************************************************)
(* The persistent store (labor_optimizer/db.py).  A table is a bag of      *)
(* rows.  A key is the tuple of the on_conflict columns, each column an    *)
(* optional value so that SQL NULL is NoneVal.                             *)
(***************************************************************************)
KeyHasNull(k) == \E i \in DOMAIN k : k[i] = NoneVal

\* POST without on_conflict: every posted row is added
insert(table, rows) == table (+) SetToBag(rows)

\* POST with Prefer: resolution=merge-duplicates and on_conflict=<columns>:
\* a stored row whose key equals the key of a posted row is replaced by it,
\* every other posted row is added.  The arbiter is the unique index on the
\* key columns, in which a row with a NULL key column conflicts with no row.
upsert(table, rows, Key(_)) ==
    LET replaced == {t \in BagToSet(table) :
                        \E r \in rows : ~KeyHasNull(Key(r)) /\ Key(t) = Key(r)}
        kept == [t \in BagToSet(table) \ replaced |-> table[t]]
    IN  kept (+) SetToBag(rows)

Venues == {"v1", "v2"}

\* date.weekday() of a day number; day 0 is a Monday
DayOfWeek(d) == d % 7

DaysPerWeek == 7

\* `x or default` on an optional integer: None and 0 both give the default
OrDefault(opt, default) ==
    IF opt = NoneVal \/ Get(opt) = 0 THEN default ELSE Get(opt)

(***************************************************************************)
(* core/staffing.py, in exact arithmetic: covers are hundredths of a cover *)
(* and buffer_pct is a whole percentage                                    *)
(***************************************************************************)
DEFAULT_COVERS_PER_SERVER == 16
DEFAULT_BUFFER_PCT == 10
MIN_SAMPLE_COUNT == 3
DEFAULT_LOOKBACK_WEEKS == 8
min_servers == 2
DEFAULT_COVERS_PER_BARTENDER == 30
min_bartenders == 1

CeilDiv(a, b) == (a + b - 1) \div b

compute_servers_needed(active_covers100, covers_per_server, buffer_pct, minimum) ==
    IF active_covers100 <= 0 THEN minimum
    ELSE Max2(CeilDiv(active_covers100 * (100 + buffer_pct),
                      covers_per_server * 100 * 100), minimum)

compute_bartenders_needed(active_covers100, covers_per_bartender, buffer_pct, minimum) ==
    IF active_covers100 <= 0 THEN minimum
    ELSE Max2(CeilDiv(active_covers100 * (100 + buffer_pct),
                      covers_per_bartender * 100 * 100), minimum)

(***************************************************************************)
(* ProfileBuilder.build_profiles                                           *)
(***************************************************************************)
\* the active_covers of a group of snapshot rows in ascending order
RECURSIVE SortedCovers(_)
SortedCovers(S) ==
    IF S = {} THEN <<>>
    ELSE LET m == CHOOSE x \in S : \A y \in S : x.active_covers <= y.active_covers
         IN  <<m.active_covers>> \o SortedCovers(S \ {m})

\* np.percentile(a, q), linear interpolation, in hundredths
Percentile100(a, q) ==
    LET pos == q * (Len(a) - 1)
        lo  == pos \div 100 + 1
    IN  IF lo >= Len(a) THEN a[Len(a)] * 100
        ELSE a[lo] * 100 + (pos % 100) * (a[lo + 1] - a[lo])

ProfileKey(r) ==
    <<Some(r.venue_id), Some(r.day_of_week), Some(r.hour_slot), Some(r.profile_version)>>

LatestVersion(v, profiles) ==
    LET vs == {r.profile_version : r \in {x \in BagToSet(profiles) : x.venue_id = v}}
    IN  IF vs = {} THEN NoneVal ELSE Some(CHOOSE m \in vs : \A y \in vs : y <= m)

\* a build that reuses the latest stored version
SameVersion(v, profiles) ==
    IF LatestVersion(v, profiles) = NoneVal THEN 1 ELSE Get(LatestVersion(v, profiles))

NextVersion(v, profiles) ==
    IF LatestVersion(v, profiles) = NoneVal THEN 1 ELSE Get(LatestVersion(v, profiles)) + 1

\* a scenario staffing that takes the lean headcount from the 90th percentile
\* and the safe one from the median
ScenarioStaffingSwapped(p50, p75, p90, covers_per_server, covers_per_bartender, buffer_pct, minimum_servers, minimum_bartenders) ==
    [lean |-> [servers |-> compute_servers_needed(p90, covers_per_server, 0, minimum_servers),
               bartenders |-> compute_bartenders_needed(p90, covers_per_bartender, 0,
                                                        minimum_bartenders)],
     buffered |-> [servers |-> compute_servers_needed(p75, covers_per_server, buffer_pct,
                                                      minimum_servers),
                   bartenders |-> compute_bartenders_needed(p75, covers_per_bartender,
                                                            buffer_pct, minimum_bartenders)],
     safe |-> [servers |-> compute_servers_needed(p50, covers_per_server, 0, minimum_servers),
               bartenders |-> compute_bartenders_needed(p50, covers_per_bartender, 0,
                                                        minimum_bartenders)]]

compute_scenario_staffing(p50, p75, p90, covers_per_server, covers_per_bartender, buffer_pct, minimum_servers, minimum_bartenders) ==
    [lean |-> [servers |-> compute_servers_needed(p50, covers_per_server, 0, minimum_servers),
               bartenders |-> compute_bartenders_needed(p50, covers_per_bartender, 0,
                                                        minimum_bartenders)],
     buffered |-> [servers |-> compute_servers_needed(p75, covers_per_server, buffer_pct,
                                                      minimum_servers),
                   bartenders |-> compute_bartenders_needed(p75, covers_per_bartender,
                                                            buffer_pct, minimum_bartenders)],
     safe |-> [servers |-> compute_servers_needed(p90, covers_per_server, 0, minimum_servers),
               bartenders |-> compute_bartenders_needed(p90, covers_per_bartender, 0,
                                                        minimum_bartenders)]]

ProfileRow(v, dow, hour, entries, version) ==
    LET covers == SortedCovers(entries)
        dates  == {e.business_date : e \in entries}
        p50    == Percentile100(covers, 50)
        p75    == Percentile100(covers, 75)
        p90    == Percentile100(covers, 90)
        scenarios == compute_scenario_staffing(p50, p75, p90,
                         DEFAULT_COVERS_PER_SERVER, DEFAULT_COVERS_PER_BARTENDER,
                         DEFAULT_BUFFER_PCT, min_servers, min_bartenders)
    IN  [venue_id |-> v, day_of_week |-> dow, hour_slot |-> hour,
         sample_count |-> Cardinality(entries),
         date_range_start |-> CHOOSE d \in dates : \A y \in dates : d <= y,
         date_range_end |-> CHOOSE d \in dates : \A y \in dates : y <= d,
         p50_active_covers |-> p50, p75_active_covers |-> p75,
         p90_active_covers |-> p90,
         servers_lean |-> scenarios.lean.servers,
         servers_buffered |-> scenarios.buffered.servers,
         servers_safe |-> scenarios.safe.servers,
         bartenders_lean |-> scenarios.lean.bartenders,
         bartenders_buffered |-> scenarios.buffered.bartenders,
         bartenders_safe |-> scenarios.safe.bartenders,
         profile_version |-> version]

\* a build that wants more than min_samples samples in a cell
BuiltProfilesStrict(v, lookback_weeks, min_samples, snapshots, profiles) ==
    LET start_date == today - DaysPerWeek * OrDefault(lookback_weeks, DEFAULT_LOOKBACK_WEEKS)
        snaps  == {s \in BagToSet(snapshots) : s.venue_id = v /\ s.business_date >= start_date}
        keys   == {<<s.day_of_week, s.hour_slot>> : s \in snaps}
        group(k) == {s \in snaps : s.day_of_week = k[1] /\ s.hour_slot = k[2]}
    IN  {ProfileRow(v, k[1], k[2], group(k), NextVersion(v, profiles)) :
            k \in {g \in keys : Cardinality(group(g)) > OrDefault(min_samples, MIN_SAMPLE_COUNT)}}

\* the rows one build computes, from the store as it stands
BuiltProfiles(v, lookback_weeks, min_samples, snapshots, profiles) ==
    LET start_date == today - DaysPerWeek * OrDefault(lookback_weeks, DEFAULT_LOOKBACK_WEEKS)
        snaps  == {s \in BagToSet(snapshots) : s.venue_id = v /\ s.business_date >= start_date}
        keys   == {<<s.day_of_week, s.hour_slot>> : s \in snaps}
        group(k) == {s \in snaps : s.day_of_week = k[1] /\ s.hour_slot = k[2]}
    IN  {ProfileRow(v, k[1], k[2], group(k), NextVersion(v, profiles)) :
            k \in {g \in keys : Cardinality(group(g)) >= OrDefault(min_samples, MIN_SAMPLE_COUNT)}}

\* the staffing_profiles table after one build
build_profiles(v, lookback_weeks, min_samples, snapshots, profiles) ==
    LET rows == BuiltProfiles(v, lookback_weeks, min_samples, snapshots, profiles)
    IN  IF rows = {} THEN profiles ELSE upsert(profiles, rows, ProfileKey)

(***************************************************************************)
(* SnapshotBuilder.build_snapshots: the hourly active covers computed from *)
(* the day's checks are the input                                          *)
(***************************************************************************)
SnapshotKey(r) == <<Some(r.venue_id), Some(r.business_date), Some(r.hour_slot)>>

SnapshotRows(v, d, hourly) ==
    {[venue_id |-> v, business_date |-> d, hour_slot |-> h,
      day_of_week |-> DayOfWeek(d), active_covers |-> hourly[h],
      servers_recommended |-> compute_servers_needed(hourly[h] * 100,
                                  DEFAULT_COVERS_PER_SERVER, DEFAULT_BUFFER_PCT, min_servers)] :
        h \in DOMAIN hourly}

build_snapshots(v, d, hourly, snapshots) ==
    upsert(snapshots, SnapshotRows(v, d, hourly), SnapshotKey)

(***************************************************************************)
(* core/metrics.py and BacktestRunner                                      *)
(***************************************************************************)
Scenarios == {"lean", "buffered", "safe"}

\* Python round() of n/d to an integer: halves go to the even neighbour
RoundHalfEven(n, d) ==
    LET q == n \div d
        r == n % d
    IN  IF 2 * r < d THEN q
        ELSE IF 2 * r > d THEN q + 1
        ELSE IF q % 2 = 0 THEN q ELSE q + 1

staffing_delta(actual_covers, recommended_servers, covers_per_server) ==
    LET needed == IF actual_covers > 0 THEN CeilDiv(actual_covers, covers_per_server) ELSE 0
        delta  == recommended_servers - needed
    IN  [needed_servers |-> needed, recommended_servers |-> recommended_servers,
         delta |-> delta, adequate |-> (delta >= 0),
         status |-> IF delta >= 0 /\ delta <= 1 THEN "adequate"
                    ELSE IF delta > 1 THEN "overstaffed" ELSE "understaffed"]

\* _get_profiles: the rows of one weekday at the given or the latest version
get_profiles(v, dow, version, profiles) ==
    LET ver == IF version # NoneVal /\ Get(version) # 0 THEN version
               ELSE LatestVersion(v, profiles)
    IN  IF ver = NoneVal THEN {}
        ELSE {r \in BagToSet(profiles) : /\ r.venue_id = v
                                     /\ r.day_of_week = dow
                                     /\ r.profile_version = Get(ver)}

RecommendedServers(profile, scenario) ==
    IF scenario = "lean" THEN profile.servers_lean
    ELSE IF scenario = "buffered" THEN profile.servers_buffered
    ELSE profile.servers_safe

\* the hour by hour comparison, in hour_slot order
HourlyResults(profs, actuals, scenario) ==
    LET hours == SortedInts({p.hour_slot : p \in profs})
        prof(h) == CHOOSE p \in profs : p.hour_slot = h
        actual(h) == IF \E a \in actuals : a.hour_slot = h
                     THEN (CHOOSE a \in actuals : a.hour_slot = h).active_covers
                     ELSE 0
    IN  [i \in DOMAIN hours |->
            [hour |-> hours[i], actual_covers |-> actual(hours[i])]
            @@ staffing_delta(actual(hours[i]),
                              RecommendedServers(prof(hours[i]), scenario),
                              DEFAULT_COVERS_PER_SERVER)]

CountWhere(seq, P(_)) == Cardinality({i \in DOMAIN seq : P(seq[i])})

\* what backtest_date returns: None, or the result row it stores
backtest_date(v, business_date, scenario, profile_version, snapshots, profiles) ==
    LET profs   == get_profiles(v, DayOfWeek(business_date), profile_version, profiles)
        actuals == {s \in BagToSet(snapshots) : s.venue_id = v /\ s.business_date = business_date}
        hr      == HourlyResults(profs, actuals, scenario)
        IsAdequate(r) == r.adequate
        IsUnder(r) == r.status = "understaffed"
        IsOver(r) == r.status = "overstaffed"
    IN  IF profs = {} \/ actuals = {} THEN NoneVal
        ELSE Some([venue_id |-> v, business_date |-> business_date, scenario |-> scenario,
                   hours_analyzed |-> Len(hr),
                   hours_adequate |-> CountWhere(hr, IsAdequate),
                   hours_understaffed |-> CountWhere(hr, IsUnder),
                   hours_overstaffed |-> CountWhere(hr, IsOver),
                   \* round(adequate / total * 100, 1), in tenths of a percent
                   coverage_pct |-> RoundHalfEven(CountWhere(hr, IsAdequate) * 1000, Len(hr)),
                   wasted_labor_hours |-> SumSeq([i \in DOMAIN hr |-> Max2(hr[i].delta, 0)]),
                   understaffed_labor_hours |-> SumSeq([i \in DOMAIN hr |-> Max2(0 - hr[i].delta, 0)]),
                   hourly_detail |-> hr,
                   profile_version |-> (CHOOSE p \in profs : TRUE).profile_version,
                   backtest_type |-> "standard"])

BacktestKey(r) ==
    <<Some(r.venue_id), Some(r.business_date), Some(r.scenario), Some(r.backtest_type)>>

\* a store that adds the result row without merging on the key
InsertBacktestResult(results, result) == insert(results, {result})

SaveBacktestResult(results, result) == upsert(results, {result}, BacktestKey)

\* the while loop of rolling_backtest from `current` on: the tables and the
\* returned list when the loop ends
RECURSIVE RollingLoop(_, _, _, _, _, _, _, _, _)
RollingLoop(v, current, end, weeks, scenario, snapshots, profiles, results, out) ==
    IF current > end
    THEN [profiles |-> profiles, results |-> results, out |-> out]
    ELSE LET built  == build_profiles(v, Some(weeks), NoneVal, snapshots, profiles)
             result == backtest_date(v, current, scenario, NoneVal, snapshots, built)
         IN  IF result = NoneVal
             THEN RollingLoop(v, current + 1, end, weeks, scenario, snapshots,
                              built, results, out)
             ELSE RollingLoop(v, current + 1, end, weeks, scenario, snapshots, built,
                              SaveBacktestResult(results, Get(result)),
                              Append(out, [Get(result) EXCEPT !.backtest_type = "rolling"]))

(***************************************************************************)
(* Specification of the profile pipeline: snapshot builds, profile builds  *)
(* and rolling backtests of the venues, one at a time                      *)
(***************************************************************************)
MaxVersion == 2
StartDay == 2 * DaysPerWeek
Curve1 == (18 :> 10 @@ 19 :> 40)
Curve2 == (18 :> 40 @@ 19 :> 30)
\* a busy evening: 280 covers seated at 19:30
CurvePeak == (18 :> 10 @@ 19 :> 280)
\* the snapshot builds, profile builds and rolling backtests that are run
SnapshotInputs == {"v1"} \X {2 * DaysPerWeek} \X {Curve1, Curve2}
\* the profile runs also see a lone Sunday, a cell with a single sample
ProfileSnapshotInputs == SnapshotInputs \cup {<<"v1", StartDay - 1, Curve1>>}
BuildInputs ==
    ({"v1"} \X {NoneVal, Some(1)} \X {NoneVal, Some(1), Some(2)})
        \cup {<<"v2", NoneVal, NoneVal>>}
RollingInputs ==
    ({"v1"} \X {StartDay - 1, StartDay} \X {StartDay} \X {1, 2} \X {"buffered"})
        \cup {<<"v2", StartDay, StartDay, 2, "buffered">>}

\* the history already in the store: two Mondays of venue v1, three of v2
InitialSnapshots ==
    SetToBag(SnapshotRows("v1", 0, Curve1) \cup SnapshotRows("v1", DaysPerWeek, Curve1)
             \cup SnapshotRows("v2", 0, Curve2) \cup SnapshotRows("v2", DaysPerWeek, Curve2)
             \cup SnapshotRows("v2", 2 * DaysPerWeek, Curve2))

InitProfiles ==
    /\ WavesIdle
    /\ SchedIdle
    /\ PosIdle
    /\ CallIdle
    /\ SaveIdle
    /\ AlertsIdle
    /\ ForecastIdle
    /\ today = StartDay
    /\ hourly_snapshots = InitialSnapshots
    /\ staffing_profiles = EmptyBag
    /\ backtest_results = EmptyBag
    /\ train_weeks = 0
    /\ rolling_results = <<>>
    /\ backtest_runs = 0
    /\ builds = <<>>

BuildSnapshots(v, d, hourly) ==
    /\ d <= today
    /\ hourly_snapshots' = build_snapshots(v, d, hourly, hourly_snapshots)
    /\ UNCHANGED <<today, staffing_profiles, backtest_results, train_weeks,
                   rolling_results, backtest_runs, builds>>
    /\ UNCHANGED <<wavesVars, schedVars, posVars, callVars, saveVars, alertVars, fcVars>>

BuildProfiles(v, lookback_weeks, min_samples) ==
    /\ NextVersion(v, staffing_profiles) <= MaxVersion
    /\ staffing_profiles' =
          build_profiles(v, lookback_weeks, min_samples, hourly_snapshots, staffing_profiles)
    /\ UNCHANGED <<today, hourly_snapshots, backtest_results, train_weeks,
                   rolling_results, backtest_runs, builds>>
    /\ UNCHANGED <<wavesVars, schedVars, posVars, callVars, saveVars, alertVars, fcVars>>

RollingBacktest(v, start_date, end_date, weeks, scenario) ==
    /\ start_date <= end_date
    /\ NextVersion(v, staffing_profiles) + (end_date - start_date) <= MaxVersion
    /\ LET r == RollingLoop(v, start_date, end_date, weeks, scenario,
                            hourly_snapshots, staffing_profiles, backtest_results, <<>>)
       IN  /\ staffing_profiles' = r.profiles
           /\ backtest_results' = r.results
           /\ rolling_results' = r.out
    /\ train_weeks' = weeks
    /\ UNCHANGED <<today, hourly_snapshots, backtest_runs, builds>>
    /\ UNCHANGED <<wavesVars, schedVars, posVars, callVars, saveVars, alertVars, fcVars>>

NextProfiles ==
    \/ \E i \in ProfileSnapshotInputs : BuildSnapshots(i[1], i[2], i[3])
    \/ \E i \in BuildInputs : BuildProfiles(i[1], i[2], i[3])
    \/ \E i \in RollingInputs : RollingBacktest(i[1], i[2], i[3], i[4], i[5])

SpecProfiles == InitProfiles /\ [][NextProfiles]_vars

\* the rows of a venue's profile, and the rows a step adds to the table
ProfilesOf(v, profiles) == {r \in BagToSet(profiles) : r.venue_id = v}
WrittenProfiles(v) == ProfilesOf(v, staffing_profiles') \ ProfilesOf(v, staffing_profiles)

\* C5: over any sequence of serialized build_profiles runs of a venue (the
\* builds a rolling backtest makes included), every stored row of an earlier
\* version stays stored and unchanged, the rows written carry versions
\* strictly greater than every version stored before for the venue, and one
\* build writes all its rows under one version.
C5_VersionsAppendOnly ==
    [][/\ \A r \in BagToSet(staffing_profiles) :
            r \in BagToSet(staffing_profiles') /\ staffing_profiles'[r] = staffing_profiles[r]
       /\ \A v \in Venues : \A w \in WrittenProfiles(v) :
            \A o \in ProfilesOf(v, staffing_profiles) : w.profile_version > o.profile_version
       /\ (\E i \in BuildInputs : BuildProfiles(i[1], i[2], i[3])) =>
            \A v \in Venues : \A w, x \in WrittenProfiles(v) :
                w.profile_version = x.profile_version]_vars

\* witness: venue v1 holds two versions of the profile of one weekday and
\* hour, built from different samples, next to a profile of venue v2
C5_Witness ==
    /\ \E r1, r2 \in ProfilesOf("v1", staffing_profiles) :
          /\ r1.profile_version = 1 /\ r2.profile_version = 2
          /\ r1.day_of_week = r2.day_of_week /\ r1.hour_slot = r2.hour_slot
          /\ r1.sample_count = 3 /\ r2.sample_count = 2
          /\ r1.p75_active_covers # r2.p75_active_covers
    /\ ProfilesOf("v2", staffing_profiles) # {}

\* C6: the profile a rolling backtest used to score a day D holds only
\* samples dated in the train_weeks weeks strictly before D.
C6_RollingNoLookahead ==
    \A i \in DOMAIN rolling_results :
        \A p \in ProfilesOf(rolling_results[i].venue_id, staffing_profiles) :
            (/\ p.profile_version = rolling_results[i].profile_version
             /\ p.day_of_week = DayOfWeek(rolling_results[i].business_date))
            => /\ p.date_range_end < rolling_results[i].business_date
               /\ p.date_range_start >=
                      rolling_results[i].business_date - DaysPerWeek * train_weeks

(***************************************************************************)
(* AutoScheduler.save_schedule: one store operation per step; a run can be *)
(* abandoned between any two of them                                       *)
(***************************************************************************)
SchedulerVenue == "v1"

\* the weekly_schedules row of a run; when the first insert is rejected the
\* run retries without the optional columns
ScheduleRecord(id, data, all_columns) ==
    [id |-> id, venue_id |-> SchedulerVenue, week_start_date |-> data.week_start_date,
     status |-> "draft", total_labor_hours |-> data.total_hours,
     optimization_mode |-> IF all_columns THEN Some(data.optimization_mode) ELSE NoneVal]

\* the shift_assignments rows of a run, likewise
ShiftRecords(id, data, all_columns) ==
    {[schedule_id |-> id, venue_id |-> SchedulerVenue,
      employee_id |-> data.assignments[i].employee_id,
      business_date |-> data.assignments[i].business_date,
      scheduled_hours |-> data.assignments[i].scheduled_hours,
      hourly_rate |-> IF all_columns THEN Some(data.assignments[i].hourly_rate) ELSE NoneVal,
      status |-> "scheduled"] : i \in DOMAIN data.assignments}

\* db.select('weekly_schedules', 'id', venue_id=eq, week_start_date=eq)
SelectExistingIds(schedules, week_start) ==
    SortedInts({r.id : r \in {x \in schedules : /\ x.venue_id = SchedulerVenue
                                                /\ x.week_start_date = week_start}})

\* db.delete('shift_assignments', schedule_id=eq.<id>)
DeleteShiftsOf(shifts, id) ==
    [r \in {x \in BagToSet(shifts) : x.schedule_id # id} |-> shifts[r]]

\* a removal loop that leaves the old weekly_schedules row in place
KeepScheduleRow(schedules, id) == schedules

\* db.delete('weekly_schedules', id=eq.<id>)
DeleteScheduleRow(schedules, id) == {r \in schedules : r.id # id}

MaxRuns == 3
Assignment(e, d) ==
    [employee_id |-> e, business_date |-> d, scheduled_hours |-> 26, hourly_rate |-> 15]
ScheduleDataChoices ==
    {[week_start_date |-> 0, total_hours |-> 52, optimization_mode |-> "fallback",
      assignments |-> <<Assignment("e1", 0), Assignment("e2", 0)>>],
     [week_start_date |-> 0, total_hours |-> 26, optimization_mode |-> "fallback",
      assignments |-> <<Assignment("e2", 1)>>],
     [week_start_date |-> DaysPerWeek, total_hours |-> 26, optimization_mode |-> "fallback",
      assignments |-> <<Assignment("e1", DaysPerWeek)>>]}

\* the store holds a saved schedule of another venue for week 0
OtherVenueSchedule ==
    [id |-> 0, venue_id |-> "v2", week_start_date |-> 0, status |-> "draft",
     total_labor_hours |-> 26, optimization_mode |-> Some("fallback")]
OtherVenueShift ==
    [schedule_id |-> 0, venue_id |-> "v2", employee_id |-> "e9", business_date |-> 0,
     scheduled_hours |-> 26, hourly_rate |-> Some(15), status |-> "scheduled"]

InitSave ==
    /\ WavesIdle
    /\ SchedIdle
    /\ PosIdle
    /\ CallIdle
    /\ ProfilesIdle
    /\ AlertsIdle
    /\ ForecastIdle
    /\ weekly_schedules = {OtherVenueSchedule}
    /\ shift_assignments = SetToBag({OtherVenueShift})
    /\ next_id = 1
    /\ schedule_data = NoneVal
    /\ existing = <<>>
    /\ schedule_id = NoneVal
    /\ savePc = "idle"
    /\ runs = 0
    /\ abandoned = 0

SaveNotRunning == savePc \in {"idle", "done", "abandoned"}

\* save_schedule(None): returns None at once
SaveNothing ==
    /\ SaveNotRunning
    /\ runs < MaxRuns
    /\ runs' = runs + 1
    /\ schedule_data' = NoneVal
    /\ schedule_id' = NoneVal
    /\ existing' = <<>>
    /\ savePc' = "done"
    /\ UNCHANGED <<weekly_schedules, shift_assignments, next_id, abandoned>>
    /\ UNCHANGED <<wavesVars, schedVars, posVars, callVars, profVars, alertVars, fcVars>>

BeginSave(data) ==
    /\ SaveNotRunning
    /\ runs < MaxRuns
    /\ runs' = runs + 1
    /\ schedule_data' = Some(data)
    /\ schedule_id' = NoneVal
    /\ existing' = <<>>
    /\ savePc' = "select"
    /\ UNCHANGED <<weekly_schedules, shift_assignments, next_id, abandoned>>
    /\ UNCHANGED <<wavesVars, schedVars, posVars, callVars, profVars, alertVars, fcVars>>

SelectExisting ==
    /\ savePc = "select"
    /\ existing' = SelectExistingIds(weekly_schedules, Get(schedule_data).week_start_date)
    /\ savePc' = IF existing' = <<>> THEN "insert_schedule" ELSE "delete_shifts"
    /\ UNCHANGED <<weekly_schedules, shift_assignments, next_id, schedule_data,
                   schedule_id, runs, abandoned>>
    /\ UNCHANGED <<wavesVars, schedVars, posVars, callVars, profVars, alertVars, fcVars>>

DeleteOldShifts ==
    /\ savePc = "delete_shifts"
    /\ shift_assignments' = DeleteShiftsOf(shift_assignments, Head(existing))
    /\ savePc' = "delete_schedule"
    /\ UNCHANGED <<weekly_schedules, next_id, schedule_data, existing, schedule_id,
                   runs, abandoned>>
    /\ UNCHANGED <<wavesVars, schedVars, posVars, callVars, profVars, alertVars, fcVars>>

DeleteOldSchedule ==
    /\ savePc = "delete_schedule"
    /\ weekly_schedules' = DeleteScheduleRow(weekly_schedules, Head(existing))
    /\ existing' = Tail(existing)
    /\ savePc' = IF existing' = <<>> THEN "insert_schedule" ELSE "delete_shifts"
    /\ UNCHANGED <<shift_assignments, next_id, schedule_data, schedule_id, runs, abandoned>>
    /\ UNCHANGED <<wavesVars, schedVars, posVars, callVars, profVars, alertVars, fcVars>>

\* the insert, at the first attempt or at the retry with fewer columns
InsertSchedule(all_columns) ==
    /\ savePc = "insert_schedule"
    /\ weekly_schedules' =
          weekly_schedules \cup {ScheduleRecord(next_id, Get(schedule_data), all_columns)}
    /\ schedule_id' = Some(next_id)
    /\ next_id' = next_id + 1
    /\ savePc' = "insert_shifts"
    /\ UNCHANGED <<shift_assignments, schedule_data, existing, runs, abandoned>>
    /\ UNCHANGED <<wavesVars, schedVars, posVars, callVars, profVars, alertVars, fcVars>>

InsertShifts(all_columns) ==
    /\ savePc = "insert_shifts"
    /\ shift_assignments' =
          insert(shift_assignments,
                 ShiftRecords(Get(schedule_id), Get(schedule_data), all_columns))
    /\ savePc' = "done"
    /\ UNCHANGED <<weekly_schedules, next_id, schedule_data, existing, schedule_id,
                   runs, abandoned>>
    /\ UNCHANGED <<wavesVars, schedVars, posVars, callVars, profVars, alertVars, fcVars>>

\* the run stops where it is: the process is cancelled or a request raises
AbandonSave ==
    /\ ~SaveNotRunning
    /\ savePc' = "abandoned"
    /\ abandoned' = abandoned + 1
    /\ UNCHANGED <<weekly_schedules, shift_assignments, next_id, schedule_data, existing,
                   schedule_id, runs>>
    /\ UNCHANGED <<wavesVars, schedVars, posVars, callVars, profVars, alertVars, fcVars>>

NextSave ==
    \/ SaveNothing
    \/ \E data \in ScheduleDataChoices : BeginSave(data)
    \/ SelectExisting
    \/ DeleteOldShifts
    \/ DeleteOldSchedule
    \/ \E all_columns \in BOOLEAN : InsertSchedule(all_columns)
    \/ \E all_columns \in BOOLEAN : InsertShifts(all_columns)
    \/ AbandonSave

SpecSave == InitSave /\ [][NextSave]_vars

SchedulesOfKey(week_start) ==
    {r \in weekly_schedules : r.venue_id = SchedulerVenue /\ r.week_start_date = week_start}

\* the assignments stored under the schedules of a (venue, week), as
\* (employee, date, hours) with their multiplicities
AttachedShifts(week_start) ==
    LET ids == {r.id : r \in SchedulesOfKey(week_start)}
    IN  {<<r.employee_id, r.business_date, r.scheduled_hours, shift_assignments[r]>> :
            r \in {x \in BagToSet(shift_assignments) : x.schedule_id \in ids}}

\* C7: when a save_schedule run that stores a schedule completes, whatever
\* the earlier runs for the week did and wherever they were abandoned, the
\* store holds exactly one weekly_schedules row for the (venue, week_start)
\* and the assignments attached to that key are exactly those of the run.
C7_CompletedSaveReplaces ==
    (savePc = "done" /\ schedule_data # NoneVal) =>
        LET data == Get(schedule_data)
        IN  /\ Cardinality(SchedulesOfKey(data.week_start_date)) = 1
            /\ \E r \in SchedulesOfKey(data.week_start_date) : r.id = Get(schedule_id)
            /\ AttachedShifts(data.week_start_date) =
                  {<<data.assignments[i].employee_id, data.assignments[i].business_date,
                     data.assignments[i].scheduled_hours, 1>> : i \in DOMAIN data.assignments}
            /\ OtherVenueSchedule \in weekly_schedules
            /\ OtherVenueShift \in BagToSet(shift_assignments)

\* witness: the third run for week 0 completed after two runs were abandoned,
\* each after it had inserted its weekly_schedules row
C7_Witness ==
    /\ savePc = "done"
    /\ schedule_data # NoneVal
    /\ Get(schedule_data).week_start_date = 0
    /\ Len(Get(schedule_data).assignments) = 1
    /\ abandoned = 2
    /\ schedule_id = Some(3)
    /\ SchedulesOfKey(DaysPerWeek) = {}

(***************************************************************************)
(* Specification of repeated backtest_date commands over fixed snapshots   *)
(* and profiles                                                            *)
(***************************************************************************)
MaxBacktestRuns == 3
BacktestInputs ==
    Venues \X {DaysPerWeek, StartDay - 1, StartDay} \X {"buffered", "safe"}
           \X {NoneVal, Some(1)}

\* two versions of the profile of venue v1 and one of venue v2, built from
\* the snapshots in the store
BuiltTwice(snapshots) ==
    build_profiles("v2", NoneVal, NoneVal, snapshots,
        build_profiles("v1", Some(1), Some(1), snapshots,
            build_profiles("v1", NoneVal, NoneVal, snapshots, EmptyBag)))

InitBacktest ==
    /\ WavesIdle
    /\ SchedIdle
    /\ PosIdle
    /\ CallIdle
    /\ SaveIdle
    /\ AlertsIdle
    /\ ForecastIdle
    /\ today = StartDay
    /\ \E hourly \in {Curve1, Curve2} :
          hourly_snapshots = build_snapshots("v1", StartDay, hourly, InitialSnapshots)
    /\ staffing_profiles = BuiltTwice(hourly_snapshots)
    /\ backtest_results = EmptyBag
    /\ train_weeks = 0
    /\ rolling_results = <<>>
    /\ backtest_runs = 0
    /\ builds = <<>>

BacktestDate(v, business_date, scenario, profile_version) ==
    LET result == backtest_date(v, business_date, scenario, profile_version,
                                hourly_snapshots, staffing_profiles)
    IN  /\ backtest_runs < MaxBacktestRuns
        /\ result # NoneVal
        /\ backtest_results' = SaveBacktestResult(backtest_results, Get(result))
        /\ backtest_runs' = backtest_runs + 1
        /\ UNCHANGED <<today, hourly_snapshots, staffing_profiles, train_weeks,
                       rolling_results, builds>>
        /\ UNCHANGED <<wavesVars, schedVars, posVars, callVars, saveVars, alertVars, fcVars>>

\* backtest_date returns None without writing: no profile or no snapshot
BacktestDateNoData(v, business_date, scenario, profile_version) ==
    /\ backtest_date(v, business_date, scenario, profile_version,
                     hourly_snapshots, staffing_profiles) = NoneVal
    /\ UNCHANGED vars

NextBacktest ==
    \/ \E i \in BacktestInputs : BacktestDate(i[1], i[2], i[3], i[4])
    \/ \E i \in BacktestInputs : BacktestDateNoData(i[1], i[2], i[3], i[4])

SpecBacktest == InitBacktest /\ [][NextBacktest]_vars

ResultsOf(v, business_date, scenario) ==
    {r \in BagToSet(backtest_results) :
        r.venue_id = v /\ r.business_date = business_date /\ r.scenario = scenario}

\* C8: however many times backtest_date ran over the unchanged snapshots and
\* profiles, every (venue, date, scenario) has at most one stored result, and
\* it is the result a single run with that profile version computes.
C8_BacktestIdempotent ==
    \A r \in BagToSet(backtest_results) :
        /\ backtest_results[r] = 1
        /\ ResultsOf(r.venue_id, r.business_date, r.scenario) = {r}
        /\ Some(r) = backtest_date(r.venue_id, r.business_date, r.scenario,
                                   Some(r.profile_version), hourly_snapshots,
                                   staffing_profiles)

\* witness: three runs stored a result for one (venue, date, scenario), and
\* the table holds one row, an understaffed one
C8_Witness ==
    /\ backtest_runs = 3
    /\ \E r \in BagToSet(backtest_results) :
          /\ BagToSet(backtest_results) = {r}
          /\ r.venue_id = "v1"
          /\ r.hours_analyzed = 2
          /\ r.hours_understaffed > 0

(***************************************************************************)
(* AlertMonitor.check_date                                                 *)
(***************************************************************************)
AlertKey(r) ==
    <<Some(r.venue_id), Some(r.alert_date), r.hour_slot, Some(r.alert_type)>>

Alert(v, d, hour, type, severity, covers, servers, delta) ==
    [venue_id |-> v, alert_date |-> d, hour_slot |-> hour, alert_type |-> type,
     severity |-> severity, actual_covers |-> covers, recommended_servers |-> servers,
     delta |-> delta]

\* a monitor that alerts from 1.2 x p90 on, the threshold included
HourAlertsInclusive(v, d, profile, actual) ==
    LET covers == actual.active_covers
        p50    == profile.p50_active_covers
        p90    == profile.p90_active_covers
        rec    == profile.servers_buffered
        needed == IF covers > 0 THEN CeilDiv(covers, DEFAULT_COVERS_PER_SERVER) ELSE 0
        delta  == rec - needed
        hourly(type, severity, dl) ==
            Alert(v, d, Some(profile.hour_slot), type, severity, Some(covers), Some(rec), dl)
    IN  (IF p90 > 0 /\ covers * 1000 >= p90 * 12
         THEN {hourly("demand_spike",
                      IF covers * 1000 > p90 * 15 THEN "critical" ELSE "warning", NoneVal)}
         ELSE {})
        \cup
        (IF p50 > 1000 /\ covers * 200 < p50
         THEN {hourly("demand_drop", "info", NoneVal)} ELSE {})
        \cup
        (IF rec > 0 /\ needed > 0 /\ delta < -2
         THEN {hourly("understaffed", IF delta < -4 THEN "critical" ELSE "warning",
                      Some(delta))}
         ELSE IF rec > 0 /\ needed > 0 /\ delta > 3
         THEN {hourly("overstaffed", "info", Some(delta))}
         ELSE {})

\* a monitor that calls three servers too many overstaffed
HourAlertsEagerOverstaffed(v, d, profile, actual) ==
    LET covers == actual.active_covers
        p50    == profile.p50_active_covers
        p90    == profile.p90_active_covers
        rec    == profile.servers_buffered
        needed == IF covers > 0 THEN CeilDiv(covers, DEFAULT_COVERS_PER_SERVER) ELSE 0
        delta  == rec - needed
        hourly(type, severity, dl) ==
            Alert(v, d, Some(profile.hour_slot), type, severity, Some(covers), Some(rec), dl)
    IN  (IF p90 > 0 /\ covers * 1000 > p90 * 12
         THEN {hourly("demand_spike",
                      IF covers * 1000 > p90 * 15 THEN "critical" ELSE "warning", NoneVal)}
         ELSE {})
        \cup
        (IF p50 > 1000 /\ covers * 200 < p50
         THEN {hourly("demand_drop", "info", NoneVal)} ELSE {})
        \cup
        (IF rec > 0 /\ needed > 0 /\ delta < -2
         THEN {hourly("understaffed", IF delta < -4 THEN "critical" ELSE "warning",
                      Some(delta))}
         ELSE IF rec > 0 /\ needed > 0 /\ delta > 2
         THEN {hourly("overstaffed", "info", Some(delta))}
         ELSE {})

\* the alerts of one hour: profile percentiles are hundredths of a cover
HourAlerts(v, d, profile, actual) ==
    LET covers == actual.active_covers
        p50    == profile.p50_active_covers
        p90    == profile.p90_active_covers
        rec    == profile.servers_buffered
        needed == IF covers > 0 THEN CeilDiv(covers, DEFAULT_COVERS_PER_SERVER) ELSE 0
        delta  == rec - needed
        hourly(type, severity, dl) ==
            Alert(v, d, Some(profile.hour_slot), type, severity, Some(covers), Some(rec), dl)
    IN  (IF p90 > 0 /\ covers * 1000 > p90 * 12
         THEN {hourly("demand_spike",
                      IF covers * 1000 > p90 * 15 THEN "critical" ELSE "warning", NoneVal)}
         ELSE {})
        \cup
        (IF p50 > 1000 /\ covers * 200 < p50
         THEN {hourly("demand_drop", "info", NoneVal)} ELSE {})
        \cup
        (IF rec > 0 /\ needed > 0 /\ delta < -2
         THEN {hourly("understaffed", IF delta < -4 THEN "critical" ELSE "warning",
                      Some(delta))}
         ELSE IF rec > 0 /\ needed > 0 /\ delta > 3
         THEN {hourly("overstaffed", "info", Some(delta))}
         ELSE {})

\* the alerts check_date returns (and upserts, when there are any)
check_date(v, business_date, snapshots, profiles) ==
    LET profs   == get_profiles(v, DayOfWeek(business_date), NoneVal, profiles)
        actuals == {s \in BagToSet(snapshots) :
                       s.venue_id = v /\ s.business_date = business_date}
    IN  IF profs = {}
        THEN {Alert(v, business_date, NoneVal, "no_data", "info", NoneVal, NoneVal, NoneVal)}
        ELSE IF actuals = {}
        THEN {Alert(v, business_date, NoneVal, "no_data", "warning", NoneVal, NoneVal, NoneVal)}
        ELSE UNION {HourAlerts(v, business_date, p, a) :
                       <<p, a>> \in {x \in profs \X actuals : x[1].hour_slot = x[2].hour_slot}}

MaxAlertRuns == 3
\* the profile builds between the checks
MaxAlertVersion == 1
\* a quiet-then-full evening to profile over one week, and evenings on and around the
\* thresholds: 155 and 150 covers against a p90 of 100, 12 against one of 10
CurveBase == (18 :> 0 @@ 19 :> 100)
CurveSpike == (18 :> 5 @@ 19 :> 155)
CurveEdge == (18 :> 12 @@ 19 :> 150)
\* an evening without a single cover
CurveQuiet == (18 :> 0 @@ 19 :> 0)
AlertSnapshotInputs ==
    ({"v1"} \X {DaysPerWeek} \X {CurveBase})
        \cup ({"v1"} \X {StartDay} \X {CurveSpike, CurveEdge, CurveQuiet})

AlertInputs == {<<"v1", DaysPerWeek>>, <<"v1", StartDay>>}

InitAlerts ==
    /\ WavesIdle
    /\ SchedIdle
    /\ PosIdle
    /\ CallIdle
    /\ SaveIdle
    /\ ForecastIdle
    /\ today = StartDay
    /\ hourly_snapshots = InitialSnapshots
    /\ staffing_profiles = EmptyBag
    /\ backtest_results = EmptyBag
    /\ train_weeks = 0
    /\ rolling_results = <<>>
    /\ backtest_runs = 0
    /\ builds = <<>>
    /\ staffing_alerts = EmptyBag
    /\ alert_runs = 0

CheckDate(v, business_date) ==
    LET alerts == check_date(v, business_date, hourly_snapshots, staffing_profiles)
    IN  /\ alert_runs < MaxAlertRuns
        /\ alert_runs' = alert_runs + 1
        /\ staffing_alerts' = IF alerts = {} THEN staffing_alerts
                              ELSE upsert(staffing_alerts, alerts, AlertKey)
        /\ call_args' = <<v, business_date>>
        /\ call_result' = Some(alerts)
        /\ UNCHANGED <<wavesVars, schedVars, posVars, profVars, saveVars, fcVars>>

NextAlerts ==
    \/ \E i \in AlertInputs : CheckDate(i[1], i[2])
    \/ \E i \in AlertSnapshotInputs : BuildSnapshots(i[1], i[2], i[3])
    \/ /\ NextVersion("v1", staffing_profiles) <= MaxAlertVersion
       /\ BuildProfiles("v1", Some(1), Some(1))

SpecAlerts == InitAlerts /\ [][NextAlerts]_vars

\* C9: the store holds at most one alert per (venue, date, hour, type), the
\* date-level alerts with a null hour included.
C9_OneAlertPerKey ==
    \A r \in BagToSet(staffing_alerts) :
        /\ staffing_alerts[r] = 1
        /\ \A q \in BagToSet(staffing_alerts) : AlertKey(q) = AlertKey(r) => q = r

(***************************************************************************)
(* core/seasonal.py and ForecastGenerator.generate_forecast.  Multipliers  *)
(* are hundredths, so adjusted covers are ten-thousandths of a cover.      *)
(***************************************************************************)
DEFAULT_PEAK_BUFFER_PCT == 15
closed_weekdays == {0}
peak_days == {4, 5}

\* venue rows first, then global rows (venue_id IS NULL), else no adjustment
get_seasonal_factor(v, target_date, calendar) ==
    LET own    == {ev \in calendar : ev.event_date = target_date /\ ev.venue_id = Some(v)}
        global == {ev \in calendar : ev.event_date = target_date /\ ev.venue_id = NoneVal}
        events == IF own # {} THEN own ELSE global
    IN  IF events # {}
        THEN LET ev == CHOOSE x \in events : TRUE
             IN  [multiplier |-> ev.covers_multiplier, event_name |-> Some(ev.event_name),
                  hourly_multipliers |-> ev.hourly_multipliers]
        ELSE [multiplier |-> 100, event_name |-> NoneVal, hourly_multipliers |-> NoneVal]

ForecastKey(r) == <<Some(r.venue_id), Some(r.forecast_date), Some(r.scenario)>>

\* one scenario's row of a forecast
ForecastRow(v, target_date, scenario, profs, seasonal) ==
    LET dow == DayOfWeek(target_date)
        buffer_pct == IF dow \in peak_days THEN DEFAULT_PEAK_BUFFER_PCT
                      ELSE DEFAULT_BUFFER_PCT
        hours == SortedInts({p.hour_slot : p \in profs})
        prof(h) == CHOOSE p \in profs : p.hour_slot = h
        base(h) == IF scenario = "lean" THEN prof(h).p50_active_covers
                   ELSE IF scenario = "buffered" THEN prof(h).p75_active_covers
                   ELSE prof(h).p90_active_covers
        sbuf == IF scenario = "buffered" THEN buffer_pct ELSE 0
        mult(h) == IF seasonal.hourly_multipliers # NoneVal
                      /\ h \in DOMAIN Get(seasonal.hourly_multipliers)
                   THEN Get(seasonal.hourly_multipliers)[h]
                   ELSE seasonal.multiplier
        adjusted(h) == base(h) * mult(h)
        detail == [i \in DOMAIN hours |->
                     [hour |-> hours[i],
                      servers |-> compute_servers_needed(adjusted(hours[i]),
                                      DEFAULT_COVERS_PER_SERVER * 100, sbuf, min_servers),
                      bartenders |-> compute_bartenders_needed(adjusted(hours[i]),
                                      DEFAULT_COVERS_PER_BARTENDER * 100, sbuf, min_bartenders),
                      seasonal_factor |-> mult(hours[i])]]
    IN  [venue_id |-> v, forecast_date |-> target_date, day_of_week |-> dow,
         scenario |-> scenario,
         total_servers |-> CHOOSE m \in {detail[i].servers : i \in DOMAIN detail} :
                              \A i \in DOMAIN detail : detail[i].servers <= m,
         total_bartenders |-> CHOOSE m \in {detail[i].bartenders : i \in DOMAIN detail} :
                                 \A i \in DOMAIN detail : detail[i].bartenders <= m,
         total_labor_hours |-> SumSeq([i \in DOMAIN detail |->
                                         detail[i].servers + detail[i].bartenders]),
         estimated_covers |-> SumSeq([i \in DOMAIN hours |->
                                         RoundHalfEven(adjusted(hours[i]), 10000)]),
         hourly_detail |-> detail,
         seasonal_factor |-> seasonal.multiplier,
         seasonal_note |-> seasonal.event_name,
         profile_version |-> (CHOOSE p \in profs : TRUE).profile_version]

\* a generator that forecasts closed weekdays like any other
GenerateForecastEveryDay(v, target_date, scenarios, profiles, calendar) ==
    LET profs == get_profiles(v, DayOfWeek(target_date), NoneVal, profiles)
    IN  IF profs = {} THEN {}
        ELSE {ForecastRow(v, target_date, sc, profs,
                          get_seasonal_factor(v, target_date, calendar)) :
                 sc \in IF scenarios = NoneVal \/ Get(scenarios) = {}
                        THEN Scenarios ELSE Get(scenarios)}

\* the forecasts generate_forecast returns (and upserts, when there are any)
generate_forecast(v, target_date, scenarios, profiles, calendar) ==
    LET profs == get_profiles(v, DayOfWeek(target_date), NoneVal, profiles)
    IN  IF DayOfWeek(target_date) \in closed_weekdays \/ profs = {} THEN {}
        ELSE {ForecastRow(v, target_date, sc, profs,
                          get_seasonal_factor(v, target_date, calendar)) :
                 sc \in IF scenarios = NoneVal \/ Get(scenarios) = {}
                        THEN Scenarios ELSE Get(scenarios)}

\* a store that adds the forecasts without merging on the key
InsertForecasts(forecasts, rows) == insert(forecasts, rows)

SaveForecasts(forecasts, rows) == upsert(forecasts, rows, ForecastKey)

(***************************************************************************)
(* Specification of forecast runs between which profiles are rebuilt and   *)
(* seasonal events are entered                                             *)
(***************************************************************************)
MaxForecastRuns == 3
Friday1 == DaysPerWeek - 3
Friday2 == Friday1 + DaysPerWeek
Friday3 == Friday2 + DaysPerWeek
ForecastInputs ==
    {<<"v1", Friday3, NoneVal>>, <<"v1", Friday3, Some({"buffered"})>>,
     <<"v1", StartDay, NoneVal>>, <<"v1", StartDay + 1, NoneVal>>}
SeasonalChoices ==
    {[venue_id |-> Some("v1"), event_date |-> Friday3, covers_multiplier |-> 150,
      event_name |-> "holiday", hourly_multipliers |-> NoneVal],
     [venue_id |-> NoneVal, event_date |-> Friday3, covers_multiplier |-> 50,
      event_name |-> "storm", hourly_multipliers |-> Some(18 :> 100)]}

InitForecast ==
    /\ WavesIdle
    /\ SchedIdle
    /\ PosIdle
    /\ CallIdle
    /\ SaveIdle
    /\ AlertsIdle
    /\ today = StartDay
    /\ hourly_snapshots = build_snapshots("v1", Friday1, CurvePeak, InitialSnapshots)
    /\ staffing_profiles = EmptyBag
    /\ backtest_results = EmptyBag
    /\ train_weeks = 0
    /\ rolling_results = <<>>
    /\ backtest_runs = 0
    /\ builds = <<>>
    /\ daily_staffing_forecasts = EmptyBag
    /\ seasonal_calendar = {}
    /\ forecast_runs = 0

\* one run: a closed weekday or a weekday without profile returns [] before
\* any write, every other run upserts the forecasts it returns
GenerateForecast(v, target_date, scenarios) ==
    LET forecasts == generate_forecast(v, target_date, scenarios, staffing_profiles,
                                       seasonal_calendar)
    IN  /\ forecast_runs < MaxForecastRuns
        /\ daily_staffing_forecasts' =
              IF forecasts = {} THEN daily_staffing_forecasts
              ELSE SaveForecasts(daily_staffing_forecasts, forecasts)
        /\ forecast_runs' = forecast_runs + 1
        /\ call_args' = <<v, target_date>>
        /\ call_result' = Some(forecasts)
        /\ UNCHANGED seasonal_calendar
        /\ UNCHANGED <<wavesVars, schedVars, posVars, profVars, saveVars, alertVars>>

\* an event is entered in the seasonal calendar
AddSeasonalEvent(ev) ==
    /\ seasonal_calendar' = seasonal_calendar \cup {ev}
    /\ UNCHANGED <<daily_staffing_forecasts, forecast_runs>>
    /\ UNCHANGED <<wavesVars, schedVars, posVars, callVars, profVars, saveVars, alertVars>>

NextForecast ==
    \/ \E i \in ForecastInputs : GenerateForecast(i[1], i[2], i[3])
    \/ \E ev \in SeasonalChoices : AddSeasonalEvent(ev)
    \/ \E hourly \in {Curve1, CurvePeak} : BuildSnapshots("v1", Friday2, hourly)
    \/ BuildProfiles("v1", NoneVal, Some(1))

SpecForecast == InitForecast /\ [][NextForecast]_vars

ForecastsOfKey(forecasts, k) == {r \in BagToSet(forecasts) : ForecastKey(r) = k}

\* C10: after every generate_forecast run the store holds, for each
\* (venue, date, scenario) the run generated, exactly one row, which is the
\* row of that run; the rows of the other keys stay as they were; and no key
\* ever has two rows.
C10_OneForecastPerKey ==
    [][/\ \A i \in ForecastInputs : GenerateForecast(i[1], i[2], i[3]) =>
            LET fs == generate_forecast(i[1], i[2], i[3], staffing_profiles,
                                        seasonal_calendar)
            IN  /\ \A f \in fs :
                     /\ ForecastsOfKey(daily_staffing_forecasts', ForecastKey(f)) = {f}
                     /\ daily_staffing_forecasts'[f] = 1
                /\ \A r \in BagToSet(daily_staffing_forecasts) :
                     (\A f \in fs : ForecastKey(f) # ForecastKey(r)) =>
                        /\ r \in BagToSet(daily_staffing_forecasts')
                        /\ daily_staffing_forecasts'[r] = daily_staffing_forecasts[r]
       /\ \A r \in BagToSet(daily_staffing_forecasts') :
            /\ daily_staffing_forecasts'[r] = 1
            /\ ForecastsOfKey(daily_staffing_forecasts', ForecastKey(r)) = {r}]_vars

\* witness: two runs wrote the buffered forecast of one Friday and nothing
\* else; the one stored row is built on the second profile version and the
\* venue's seasonal event
C10_Witness ==
    /\ forecast_runs = 2
    /\ \E r \in BagToSet(daily_staffing_forecasts) :
          /\ BagToSet(daily_staffing_forecasts) = {r}
          /\ daily_staffing_forecasts[r] = 1
          /\ r.scenario = "buffered"
          /\ r.profile_version = 2
          /\ r.seasonal_factor = 150

(***************************************************************************)
(* BaseCheckImporter.import_date and core/active_covers.py.  Clock times   *)
(* are minutes counted from the midnight that starts the business date.    *)
(***************************************************************************)
At(hour, minute) == hour * 60 + minute

DEFAULT_DWELL_MINUTES == 90

\* estimate_close_time: int() of the lengthened dwell
estimate_close_time(open_time, dwell_minutes, total_amount, guest_count) ==
    LET by_party == IF guest_count >= 6 THEN (dwell_minutes * 130) \div 100
                    ELSE IF guest_count >= 4 THEN (dwell_minutes * 115) \div 100
                    ELSE dwell_minutes
        by_spend == IF total_amount # NoneVal /\ Get(total_amount) # 0 /\ guest_count > 0
                    THEN IF Get(total_amount) > 200 * guest_count
                         THEN (by_party * 125) \div 100
                         ELSE IF Get(total_amount) > 100 * guest_count
                              THEN (by_party * 110) \div 100
                              ELSE by_party
                    ELSE by_party
    IN  open_time + by_spend

PosCheckKey(r) == <<Some(r.venue_id), Some(r.pos_type), Some(r.external_check_id)>>

\* the row import_date builds from one fetched check
PosCheckRow(v, pos_type, business_date, check, dwell_minutes) ==
    [venue_id |-> v, pos_type |-> pos_type,
     external_check_id |-> check.external_check_id,
     business_date |-> business_date,
     open_time |-> check.open_time,
     close_time |-> IF check.close_time = NoneVal
                    THEN estimate_close_time(check.open_time, dwell_minutes,
                                             check.total_amount, check.guest_count)
                    ELSE Get(check.close_time),
     guest_count |-> check.guest_count]

\* the pos_checks table after import_date
import_date(v, pos_type, business_date, raw_checks, dwell_minutes, checks) ==
    IF raw_checks = {} THEN checks
    ELSE upsert(checks,
                {PosCheckRow(v, pos_type, business_date, c, dwell_minutes) : c \in raw_checks},
                PosCheckKey)

RECURSIVE SumGuests(_)
SumGuests(S) ==
    IF S = {} THEN 0
    ELSE LET c == CHOOSE x \in S : TRUE
         IN  c.guest_count + SumGuests(S \ {c})

\* a closed interval: a check still counts at its close_time
ActiveAtClosed(checks, check_time) ==
    {c \in checks : c.open_time <= check_time /\ c.close_time >= check_time}

\* the checks open at check_time
ActiveAt(checks, check_time) ==
    {c \in checks : c.open_time <= check_time /\ c.close_time > check_time}

compute_active_covers(checks, check_time) == SumGuests(ActiveAt(checks, check_time))

compute_active_tables(checks, check_time) == Cardinality(ActiveAt(checks, check_time))

compute_new_covers(checks, hour_start, hour_end) ==
    SumGuests({c \in checks : c.open_time >= hour_start /\ c.open_time < hour_end})

compute_departing_covers(checks, hour_start, hour_end) ==
    SumGuests({c \in checks : c.close_time >= hour_start /\ c.close_time < hour_end})

compute_hourly_active_covers(checks, open_hour, close_hour) ==
    [hour \in open_hour..close_hour |->
        [active_covers |-> compute_active_covers(checks, At(hour, 30)),
         active_tables |-> compute_active_tables(checks, At(hour, 30)),
         new_covers |-> compute_new_covers(checks, At(hour, 0), At(hour, 0) + 60),
         departing_covers |-> compute_departing_covers(checks, At(hour, 0), At(hour, 0) + 60)]]

(***************************************************************************)
(* SnapshotBuilder.build_snapshots from the stored checks                  *)
(***************************************************************************)
DEFAULT_OPEN_HOUR == 15
DEFAULT_CLOSE_HOUR == 23

\* _load_config: the venue's active row, else the defaults
load_config(cfg) ==
    IF cfg # NoneVal THEN Get(cfg)
    ELSE [open_hour |-> DEFAULT_OPEN_HOUR, close_hour |-> DEFAULT_CLOSE_HOUR,
          covers_per_server_target |-> DEFAULT_COVERS_PER_SERVER,
          covers_per_bartender_target |-> DEFAULT_COVERS_PER_BARTENDER,
          buffer_pct |-> DEFAULT_BUFFER_PCT,
          min_servers |-> min_servers, min_bartenders |-> min_bartenders]

SelectChecks(v, business_date, checks) ==
    {c \in BagToSet(checks) : c.venue_id = v /\ c.business_date = business_date}

\* the list build_snapshots returns
BuiltSnapshots(v, business_date, checks, cfg) ==
    LET df     == SelectChecks(v, business_date, checks)
        c      == load_config(cfg)
        hourly == compute_hourly_active_covers(df, c.open_hour, c.close_hour)
    IN  IF df = {} THEN {}
        ELSE {[venue_id |-> v, business_date |-> business_date, hour_slot |-> h,
               day_of_week |-> DayOfWeek(business_date),
               active_covers |-> hourly[h].active_covers,
               active_tables |-> hourly[h].active_tables,
               new_covers |-> hourly[h].new_covers,
               departing_covers |-> hourly[h].departing_covers,
               servers_recommended |->
                   compute_servers_needed(hourly[h].active_covers * 100,
                       c.covers_per_server_target, c.buffer_pct, c.min_servers),
               bartenders_recommended |->
                   compute_bartenders_needed(hourly[h].active_covers * 100,
                       c.covers_per_bartender_target, c.buffer_pct, c.min_bartenders)] :
                 h \in DOMAIN hourly}

\* the hourly_snapshots table after build_snapshots
build_snapshots_of_checks(v, business_date, checks, cfg, snapshots) ==
    LET rows == BuiltSnapshots(v, business_date, checks, cfg)
    IN  IF rows = {} THEN snapshots ELSE upsert(snapshots, rows, SnapshotKey)

(***************************************************************************)
(* SpecSnapshots: imports, changes of the operating window and snapshot    *)
(* builds of one venue, in any order                                       *)
(***************************************************************************)
PosVenue == "v1"
\* the Square importer passes on the guest_count of the order's metadata as it
\* is, and whatever open and close instants the order carries
PosType == "square"
Day1 == DaysPerWeek
Day2 == DaysPerWeek + 1

RawCheck(id, open_time, close_time, guest_count, total_amount) ==
    [external_check_id |-> id, open_time |-> open_time, close_time |-> close_time,
     guest_count |-> guest_count, total_amount |-> total_amount]

CheckA == RawCheck("A", At(18, 0), Some(At(19, 30)), 4, NoneVal)
CheckB == RawCheck("B", At(19, 0), Some(At(20, 0)), 2, NoneVal)
\* no close time from the POS: six guests at 250 a head
CheckNoClose == RawCheck("C", At(18, 0), NoneVal, 6, Some(1500))
\* closes before it opens
CheckBackwards == RawCheck("D", At(19, 0), Some(At(18, 30)), 3, NoneVal)
CheckNegative == RawCheck("E", At(18, 0), Some(At(19, 0)), 0 - 2, NoneVal)

\* what fetch_checks can return for a date
FetchChoices ==
    ({Day1} \X {{}, {CheckA}, {CheckA, CheckB}, {CheckNoClose},
                {CheckA, CheckBackwards}, {CheckA, CheckNegative}})
    \cup ({Day2} \X {{CheckA}})

ConfigRow(open_hour, close_hour) ==
    [open_hour |-> open_hour, close_hour |-> close_hour,
     covers_per_server_target |-> DEFAULT_COVERS_PER_SERVER,
     covers_per_bartender_target |-> DEFAULT_COVERS_PER_BARTENDER,
     buffer_pct |-> DEFAULT_BUFFER_PCT,
     min_servers |-> min_servers, min_bartenders |-> min_bartenders]

ConfigChoices == {ConfigRow(18, 20), ConfigRow(19, 20)}

InitSnapshots ==
    /\ WavesIdle
    /\ SchedIdle
    /\ StoreIdle
    /\ CallIdle
    /\ pos_checks = EmptyBag
    /\ location_config = NoneVal
    /\ last_snapshots = NoneVal

ImportDate(business_date, raw_checks) ==
    /\ pos_checks' = import_date(PosVenue, PosType, business_date, raw_checks,
                                 DEFAULT_DWELL_MINUTES, pos_checks)
    /\ last_snapshots' = NoneVal
    /\ UNCHANGED location_config
    /\ UNCHANGED <<wavesVars, schedVars, storeVars, callVars>>

\* the venue's location_config row is edited
SetLocationConfig(row) ==
    /\ location_config' = Some(row)
    /\ last_snapshots' = NoneVal
    /\ UNCHANGED pos_checks
    /\ UNCHANGED <<wavesVars, schedVars, storeVars, callVars>>

BuildSnapshotsOfChecks(business_date) ==
    /\ hourly_snapshots' = build_snapshots_of_checks(PosVenue, business_date, pos_checks,
                                                     location_config, hourly_snapshots)
    /\ last_snapshots' = Some([business_date |-> business_date,
                               snapshots |-> BuiltSnapshots(PosVenue, business_date,
                                                            pos_checks, location_config)])
    /\ UNCHANGED <<today, staffing_profiles, backtest_results, train_weeks,
                   rolling_results, backtest_runs, builds>>
    /\ UNCHANGED <<pos_checks, location_config>>
    /\ UNCHANGED <<wavesVars, schedVars, saveVars, alertVars, fcVars, callVars>>

NextSnapshots ==
    \/ \E f \in FetchChoices : ImportDate(f[1], f[2])
    \/ \E row \in ConfigChoices : SetLocationConfig(row)
    \/ \E d \in {Day1, Day2} : BuildSnapshotsOfChecks(d)

SpecSnapshots == InitSnapshots /\ [][NextSnapshots]_vars

SnapshotsOf(v, business_date) ==
    {r \in BagToSet(hourly_snapshots) : r.venue_id = v /\ r.business_date = business_date}

\* C11: when build_snapshots(date) has just completed, the hourly_snapshots
\* rows stored for that (venue, date) are exactly the rows it computed from
\* the checks now stored for the date; no row of an earlier build survives.
C11_SnapshotsRebuiltWholesale ==
    last_snapshots # NoneVal =>
        SnapshotsOf(PosVenue, Get(last_snapshots).business_date)
            = Get(last_snapshots).snapshots

ProfileOfHour(r, hour) ==
    CHOOSE p \in BagToSet(staffing_profiles) :
        /\ p.venue_id = r.venue_id /\ p.profile_version = r.profile_version
        /\ p.day_of_week = r.day_of_week /\ p.hour_slot = hour

\* C13: on every open weekday, Friday and Saturday included, the buffered
\* server headcount generate_forecast emits for a profiled hour is
\* needed(p75 x seasonal multiplier, server ratio, configured buffer, min
\* servers); p75 = 280 at 19:00 with multiplier 1.0 gives 20 servers.
C13_BufferedUsesConfiguredBuffer ==
    \A r \in BagToSet(daily_staffing_forecasts) :
        r.scenario = "buffered" =>
            \A i \in DOMAIN r.hourly_detail :
                r.hourly_detail[i].servers =
                    compute_servers_needed(
                        ProfileOfHour(r, r.hourly_detail[i].hour).p75_active_covers
                            * r.hourly_detail[i].seasonal_factor,
                        DEFAULT_COVERS_PER_SERVER * 100, DEFAULT_BUFFER_PCT, min_servers)

(***************************************************************************)
(* core/staffing.py as Python evaluates it: covers * (1 + buffer_pct) and  *)
(* the division by the ratio are IEEE 754 binary64 operations, each        *)
(* rounded to 53 significant bits (round to nearest, ties to even).  A     *)
(* positive float is [m |-> bits, e |-> exponent], the value of the bit    *)
(* sequence m (most significant bit first) times 2^e.                      *)
(***************************************************************************)
MantissaBits == 53

RECURSIVE Strip(_)
Strip(bits) == IF bits # <<>> /\ Head(bits) = 0 THEN Strip(Tail(bits)) ELSE bits

RECURSIVE NatBits(_)
NatBits(n) == IF n = 0 THEN <<>> ELSE NatBits(n \div 2) \o <<n % 2>>

RECURSIVE BitsNat(_)
BitsNat(bits) ==
    IF bits = <<>> THEN 0
    ELSE 2 * BitsNat(SubSeq(bits, 1, Len(bits) - 1)) + bits[Len(bits)]

Zeros(n) == [i \in 1..n |-> 0]

\* the bit sequence lengthened by leading zeros to whole bytes, and a byte
\* as eight bits
PadToBytes(bits) == Zeros((8 - (Len(bits) % 8)) % 8) \o bits
ByteBits(n) == [i \in 1..8 |-> (n \div (2 ^ (8 - i))) % 2]

\* bits * c + carry for a small natural c, a byte at a time from the low end
RECURSIVE MulBytes(_, _, _)
MulBytes(bits, c, carry) ==
    IF bits = <<>> THEN NatBits(carry)
    ELSE LET t == BitsNat(SubSeq(bits, Len(bits) - 7, Len(bits))) * c + carry
         IN  MulBytes(SubSeq(bits, 1, Len(bits) - 8), c, t \div 256) \o ByteBits(t % 256)

MulSmall(bits, c, carry) == Strip(MulBytes(PadToBytes(bits), c, carry))

\* long division of bits by a small natural d, a byte at a time from the
\* high end: quotient bits and remainder
RECURSIVE DivBytes(_, _, _, _)
DivBytes(bits, d, rem, quot) ==
    IF bits = <<>> THEN [q |-> Strip(quot), r |-> rem]
    ELSE LET cur == 256 * rem + BitsNat(SubSeq(bits, 1, 8))
         IN  DivBytes(SubSeq(bits, 9, Len(bits)), d, cur % d,
                      quot \o ByteBits(cur \div d))

DivSmall(bits, d) == DivBytes(PadToBytes(bits), d, 0, <<>>)

\* round the exact value (bits + a non-zero tail if sticky) * 2^e to binary64
RoundNearestEven(bits, e, sticky) ==
    IF Len(bits) <= MantissaBits THEN [m |-> bits, e |-> e]
    ELSE LET kept  == SubSeq(bits, 1, MantissaBits)
             guard == bits[MantissaBits + 1]
             tail  == sticky \/ \E i \in (MantissaBits + 2)..Len(bits) : bits[i] = 1
             up    == guard = 1 /\ (tail \/ kept[MantissaBits] = 1)
             m     == IF up THEN MulSmall(kept, 1, 1) ELSE kept
             shift == Len(bits) - MantissaBits
         IN  IF Len(m) > MantissaBits
             THEN [m |-> SubSeq(m, 1, MantissaBits), e |-> e + shift + 1]
             ELSE [m |-> m, e |-> e + shift]

\* float("0.<percent>"): the binary64 nearest to percent / 100
FloatOfPercent(percent) ==
    LET d == DivSmall(NatBits(percent) \o Zeros(64), 100)
    IN  RoundNearestEven(d.q, 0 - 64, d.r # 0)

\* 1 + x for a float 0 <= x < 1
OnePlus(x) ==
    IF x.m = <<>> THEN [m |-> <<1>>, e |-> 0]
    ELSE RoundNearestEven(<<1>> \o Zeros(0 - x.e - Len(x.m)) \o x.m, x.e, FALSE)

\* n * x for a natural n
FloatTimesNat(n, x) == RoundNearestEven(MulSmall(x.m, n, 0), x.e, FALSE)

\* x / d for a natural d
FloatDivNat(x, d) ==
    LET q == DivSmall(x.m \o Zeros(64), d)
    IN  RoundNearestEven(q.q, x.e - 64, q.r # 0)

\* math.ceil of a positive float below 2^31
FloatCeil(x) ==
    IF x.e >= 0 THEN BitsNat(x.m \o Zeros(x.e))
    ELSE LET n == Len(x.m) + x.e
         IN  IF n <= 0 THEN 1
             ELSE BitsNat(SubSeq(x.m, 1, n))
                  + (IF \E i \in (n + 1)..Len(x.m) : x.m[i] = 1 THEN 1 ELSE 0)

\* compute_servers_needed / compute_bartenders_needed on floats: whole
\* covers, a whole ratio and a buffer given in percent
needed_binary64(active_covers, ratio, buffer_pct, minimum) ==
    IF active_covers <= 0 THEN minimum
    ELSE LET buffered == FloatTimesNat(active_covers, OnePlus(FloatOfPercent(buffer_pct)))
         IN  Max2(FloatCeil(FloatDivNat(buffered, ratio)), minimum)


(***************************************************************************)
(* SpecStaffing: one call of compute_servers_needed or                     *)
(* compute_bartenders_needed on whole covers                               *)
(***************************************************************************)
MaxCovers == 900

StaffingInputs ==
    [active_covers : (0 - 1)..MaxCovers,
     ratio : {DEFAULT_COVERS_PER_SERVER, DEFAULT_COVERS_PER_BARTENDER},
     buffer_pct : {0, DEFAULT_BUFFER_PCT}]

InitStaffing ==
    /\ WavesIdle
    /\ SchedIdle
    /\ StoreIdle
    /\ PosIdle
    /\ call_args \in {Some(a) : a \in StaffingInputs}
    /\ call_result = NoneVal

ComputeServersNeeded ==
    /\ call_result = NoneVal
    /\ call_result' = Some([fn |-> "compute_servers_needed", minimum |-> min_servers,
                            needed |-> needed_binary64(Get(call_args).active_covers,
                                           Get(call_args).ratio, Get(call_args).buffer_pct,
                                           min_servers)])
    /\ UNCHANGED call_args
    /\ UNCHANGED <<wavesVars, schedVars, storeVars, posVars>>

ComputeBartendersNeeded ==
    /\ call_result = NoneVal
    /\ call_result' = Some([fn |-> "compute_bartenders_needed", minimum |-> min_bartenders,
                            needed |-> needed_binary64(Get(call_args).active_covers,
                                           Get(call_args).ratio, Get(call_args).buffer_pct,
                                           min_bartenders)])
    /\ UNCHANGED call_args
    /\ UNCHANGED <<wavesVars, schedVars, storeVars, posVars>>

NextStaffing == ComputeServersNeeded \/ ComputeBartendersNeeded

SpecStaffing == InitStaffing /\ [][NextStaffing]_vars

\* C14: both functions return max(floor, ceil(covers * (1 + buffer) / ratio))
\* for every covers > 0 and exactly the floor for covers <= 0.
C14_NeededFormula ==
    call_result # NoneVal =>
        Get(call_result).needed =
            IF Get(call_args).active_covers <= 0 THEN Get(call_result).minimum
            ELSE Max2(Get(call_result).minimum,
                      CeilDiv(Get(call_args).active_covers
                                  * (100 + Get(call_args).buffer_pct),
                              Get(call_args).ratio * 100))


(***************************************************************************)
(* SpecActive: one call of compute_active_covers on a set of stored checks *)
(***************************************************************************)
StoredCheck(check) == PosCheckRow(PosVenue, PosType, Day1, check, DEFAULT_DWELL_MINUTES)

CheckSets == SUBSET {CheckA, CheckB, CheckNoClose, CheckBackwards}

CheckTimes ==
    {At(17, 59), At(18, 0), At(18, 30), At(19, 0), At(19, 15), At(19, 29), At(19, 30),
     At(20, 0), At(20, 15), At(20, 26)}

InitActive ==
    /\ WavesIdle
    /\ SchedIdle
    /\ StoreIdle
    /\ PosIdle
    /\ call_args \in {Some([checks |-> {StoredCheck(c) : c \in S}, check_time |-> t]) :
                         S \in CheckSets, t \in CheckTimes}
    /\ call_result = NoneVal

ComputeActiveCovers ==
    /\ call_result = NoneVal
    /\ call_result' = Some(compute_active_covers(Get(call_args).checks,
                                                 Get(call_args).check_time))
    /\ UNCHANGED call_args
    /\ UNCHANGED <<wavesVars, schedVars, storeVars, posVars>>

NextActive == ComputeActiveCovers

SpecActive == InitActive /\ [][NextActive]_vars

\* what one check adds at time t under the half-open reading
Seated(c, t) == IF c.open_time <= t /\ t < c.close_time THEN c.guest_count ELSE 0

\* C15: compute_active_covers(checks, t) is the sum of guest_count over
\* exactly the checks with open_time <= t < close_time; a check counts at
\* t = open_time and not at t = close_time; checks A (18:00-19:30, 4 guests)
\* and B (19:00-20:00, 2 guests) give 6 at 19:15, 4 at 18:30 and 0 at 20:15.
C15_ActiveCoversHalfOpen ==
    call_result # NoneVal =>
        LET checks == Get(call_args).checks
            t      == Get(call_args).check_time
            ids    == SortedInts({c.open_time * 10000 + c.close_time : c \in checks})
            a      == StoredCheck(CheckA)
            b      == StoredCheck(CheckB)
        IN  /\ Get(call_result) =
                   SumSeq([i \in 1..Len(ids) |->
                       Seated(CHOOSE c \in checks :
                                  c.open_time * 10000 + c.close_time = ids[i], t)])
            /\ checks = {a} /\ t = a.open_time => Get(call_result) = 4
            /\ checks = {a} /\ t = a.close_time => Get(call_result) = 0
            /\ checks = {a, b} /\ t = At(19, 15) => Get(call_result) = 6
            /\ checks = {a, b} /\ t = At(18, 30) => Get(call_result) = 4
            /\ checks = {a, b} /\ t = At(20, 15) => Get(call_result) = 0

\* witness: the call on checks A and B at 19:15 returned 6
C15_Witness ==
    /\ call_result = Some(6)
    /\ Get(call_args).checks = {StoredCheck(CheckA), StoredCheck(CheckB)}
    /\ Get(call_args).check_time = At(19, 15)


(***************************************************************************)
(* The cells a profile build emits (SpecProfiles)                          *)
(***************************************************************************)
ProfiledHours == DOMAIN Curve1

\* the snapshots of a (weekday, hour) cell dated inside the lookback window
CellSamples(v, dow, hour, lookback_weeks) ==
    {s \in BagToSet(hourly_snapshots) :
        /\ s.venue_id = v /\ s.day_of_week = dow /\ s.hour_slot = hour
        /\ s.business_date >= today - DaysPerWeek * lookback_weeks}

\* C16: build_profiles emits a profile row for a (weekday, hour) cell if and
\* only if the cell has at least min_samples snapshots in the window; a cell
\* with 2 samples and min_samples = 3 never appears.
C16_RowIffEnoughSamples ==
    [][\A i \in BuildInputs :
          BuildProfiles(i[1], i[2], i[3]) =>
              \A dow \in 0..(DaysPerWeek - 1), hour \in ProfiledHours :
                  LET n == Cardinality(CellSamples(i[1], dow, hour,
                               IF i[2] = NoneVal THEN DEFAULT_LOOKBACK_WEEKS ELSE Get(i[2])))
                      min_samples == IF i[3] = NoneVal THEN MIN_SAMPLE_COUNT ELSE Get(i[3])
                      emitted == \E w \in WrittenProfiles(i[1]) :
                                    w.day_of_week = dow /\ w.hour_slot = hour
                  IN  /\ emitted <=> n >= min_samples
                      /\ (n = 2 /\ min_samples = 3) => ~emitted
                      /\ \A w \in WrittenProfiles(i[1]) :
                            (w.day_of_week = dow /\ w.hour_slot = hour)
                                => w.sample_count = n]_vars

\* witness: venue v1's first version has a row for the one-sample Sunday cell
\* (min_samples 1), its second version, built over the same Sunday sample with
\* a higher threshold, has Monday rows only
C16_Witness ==
    /\ \E r1 \in ProfilesOf("v1", staffing_profiles) :
          r1.day_of_week = DayOfWeek(StartDay - 1) /\ r1.sample_count = 1
              /\ r1.profile_version = 1
    /\ \E r2 \in ProfilesOf("v1", staffing_profiles) :
          r2.profile_version = 2 /\ r2.sample_count >= 2
    /\ \A r2 \in ProfilesOf("v1", staffing_profiles) :
          r2.profile_version = 2 => r2.day_of_week # DayOfWeek(StartDay - 1)


(***************************************************************************)
(* Demand spikes of a post-close check (SpecAlerts)                        *)
(***************************************************************************)
\* the demand_spike alerts of one hour among the alerts a check returned
SpikesOf(alerts, hour) ==
    {a \in alerts : a.alert_type = "demand_spike" /\ a.hour_slot = Some(hour)}

\* the hours of a date that have a row of the latest profile and a snapshot
ComparedHours(v, business_date) ==
    {<<p, s>> \in get_profiles(v, DayOfWeek(business_date), NoneVal, staffing_profiles)
                    \X BagToSet(hourly_snapshots) :
        s.venue_id = v /\ s.business_date = business_date /\ s.hour_slot = p.hour_slot}

\* what a check must return for one compared hour when spiking(p, s) says
\* whether the hour spikes: one alert, critical above 1.5 x p90, or none
SpikeRule(alerts, p, s, spiking) ==
    LET spikes == SpikesOf(alerts, p.hour_slot)
    IN  IF spiking
        THEN /\ Cardinality(spikes) = 1
             /\ \A a \in spikes :
                   /\ a.actual_covers = Some(s.active_covers)
                   /\ a.severity = IF s.active_covers * 1000 > p.p90_active_covers * 15
                                   THEN "critical" ELSE "warning"
        ELSE spikes = {}

\* C17: for every hour with a profile row and a snapshot row, check_date
\* emits exactly one demand_spike if actual covers > 1.2 x p90 and none
\* otherwise, critical if actual covers > 1.5 x p90 and warning otherwise.
C17_SpikeIffAboveP90 ==
    [][\A i \in AlertInputs :
          CheckDate(i[1], i[2]) =>
              \A x \in ComparedHours(i[1], i[2]) :
                  SpikeRule(Get(call_result'), x[1], x[2],
                            x[2].active_covers * 1000 > x[1].p90_active_covers * 12)]_vars

\* C17 (amended): the same for the hours whose p90 is positive; an hour whose
\* p90 is 0 gets no demand_spike whatever its actual covers.
C17_SpikeIffAbovePositiveP90 ==
    [][\A i \in AlertInputs :
          CheckDate(i[1], i[2]) =>
              \A x \in ComparedHours(i[1], i[2]) :
                  SpikeRule(Get(call_result'), x[1], x[2],
                            /\ x[1].p90_active_covers > 0
                            /\ x[2].active_covers * 1000 > x[1].p90_active_covers * 12)]_vars

\* witness: a check of the day returned one critical demand_spike for 19:00,
\* 155 covers against a p90 of 100, and no spike for 18:00, 5 covers against 0
C17_Witness ==
    /\ call_result # NoneVal
    /\ call_args = <<"v1", StartDay>>
    /\ \E x \in ComparedHours("v1", StartDay) :
          /\ x[1].p90_active_covers = 10000 /\ x[2].active_covers = 155
          /\ \E a \in SpikesOf(Get(call_result), 19) :
                /\ SpikesOf(Get(call_result), 19) = {a}
                /\ a.severity = "critical" /\ a.actual_covers = Some(155)
    /\ \E x \in ComparedHours("v1", StartDay) :
          /\ x[1].p90_active_covers = 0 /\ x[2].active_covers = 5
          /\ SpikesOf(Get(call_result), 18) = {}


(***************************************************************************)
(* Skipped forecast runs (SpecForecast)                                    *)
(***************************************************************************)
\* the weekdays for which the latest profile version of a venue has rows
ProfiledWeekdays(v) ==
    {r.day_of_week : r \in {q \in ProfilesOf(v, staffing_profiles) :
                               \A o \in ProfilesOf(v, staffing_profiles) :
                                   o.profile_version <= q.profile_version}}

\* C18: generate_forecast returns no rows and writes nothing to the store
\* for a target date whose weekday is closed, and for a target date whose
\* weekday has no rows in the latest profile version.
C18_SkipsClosedAndUnprofiledDays ==
    [][\A i \in ForecastInputs :
          (/\ GenerateForecast(i[1], i[2], i[3])
           /\ \/ DayOfWeek(i[2]) \in closed_weekdays
              \/ DayOfWeek(i[2]) \notin ProfiledWeekdays(i[1]))
              => /\ call_result' = Some({})
                 /\ daily_staffing_forecasts' = daily_staffing_forecasts]_vars

\* witness: a run for the closed Monday returned nothing although the latest
\* profile has Monday rows, and the store still holds the earlier Friday rows
C18_Witness ==
    /\ call_args = <<"v1", StartDay>>
    /\ call_result = Some({})
    /\ DayOfWeek(StartDay) \in closed_weekdays
    /\ DayOfWeek(StartDay) \in ProfiledWeekdays("v1")
    /\ forecast_runs = 2
    /\ BagToSet(daily_staffing_forecasts) # {}
    /\ \A r \in BagToSet(daily_staffing_forecasts) : r.forecast_date = Friday3


(***************************************************************************)
(* Malformed checks (SpecSnapshots)                                        *)
(***************************************************************************)
\* a stored check that closes after it opens and has no negative guest count
WellFormed(check) == check.close_time > check.open_time /\ check.guest_count >= 0

\* C19: a check with close_time <= open_time or a negative guest_count is
\* dropped individually: every hourly snapshot of a build counts, as active,
\* new and departing covers, the well-formed checks of the date and only them.
C19_MalformedChecksDropped ==
    last_snapshots # NoneVal =>
        LET built == Get(last_snapshots)
            good  == {c \in SelectChecks(PosVenue, built.business_date, pos_checks) :
                         WellFormed(c)}
        IN  \A r \in built.snapshots :
                /\ r.active_covers = compute_active_covers(good, At(r.hour_slot, 30))
                /\ r.new_covers = compute_new_covers(good, At(r.hour_slot, 0),
                                                     At(r.hour_slot, 0) + 60)
                /\ r.departing_covers = compute_departing_covers(good, At(r.hour_slot, 0),
                                                                 At(r.hour_slot, 0) + 60)


(***************************************************************************)
(* AutoScheduler._generate_default_requirements: the fallback of           *)
(* generate_schedule when there are neither requirements nor forecasts.    *)
(* Shift hours are quarter hours, clock times minutes after midnight.      *)
(***************************************************************************)
\* POSITION_SHIFT_CONFIGS['dinner'], the keys lower-cased word by word
DinnerShiftConfigs ==
    (<<"general", "manager">> :> [start |-> At(14, 0), end |-> At(24, 0), hours |-> 40, chars |-> 15]
     @@ <<"shift", "manager">> :> [start |-> At(16, 0), end |-> At(24, 0), hours |-> 32, chars |-> 13]
     @@ <<"manager">> :> [start |-> At(15, 0), end |-> At(24, 0), hours |-> 36, chars |-> 7]
     @@ <<"bartender">> :> [start |-> At(16, 0), end |-> At(24, 30), hours |-> 34, chars |-> 9]
     @@ <<"host">> :> [start |-> At(16, 30), end |-> At(22, 30), hours |-> 24, chars |-> 4]
     @@ <<"server">> :> [start |-> At(16, 30), end |-> At(23, 0), hours |-> 26, chars |-> 6])

\* the shift of a position without configuration: 17:00 to 23:00, 6 hours
GenericDinnerShift == [start |-> At(17, 0), end |-> At(23, 0), hours |-> 24]

\* _match_config_key: the exact key, else the longest key contained in the name
match_config_key(position_name, config) ==
    IF position_name \in DOMAIN config THEN Some(position_name)
    ELSE LET matches == {k \in DOMAIN config : ContainsWords(position_name, k)}
         IN  IF matches = {} THEN NoneVal
             ELSE Some(CHOOSE k \in matches :
                          \A m \in matches : config[m].chars <= config[k].chars)

get_position_shift_config(position_name) ==
    LET key == match_config_key(position_name, DinnerShiftConfigs)
    IN  IF key = NoneVal THEN NoneVal
        ELSE Some([start |-> DinnerShiftConfigs[Get(key)].start,
                   end |-> DinnerShiftConfigs[Get(key)].end,
                   hours |-> DinnerShiftConfigs[Get(key)].hours])

\* the keys of emps_by_pos, in the order the employees introduce them
RECURSIVE PositionOrder(_, _)
PositionOrder(emps, seen) ==
    IF emps = <<>> THEN <<>>
    ELSE IF Head(emps).primary_position_id \in seen THEN PositionOrder(Tail(emps), seen)
    ELSE <<Head(emps).primary_position_id>>
             \o PositionOrder(Tail(emps), seen \cup {Head(emps).primary_position_id})

\* a fallback that asks for every employee of the position
DefaultNeededUncapped(count) == count

\* `min(len(emps), 2) if len(emps) >= 2 else 1`
DefaultNeeded(count) == IF count >= 2 THEN Min2(count, 2) ELSE 1

DefaultRequirement(date, pos_id, emps) ==
    LET pos       == positions[pos_id]
        shift_cfg == get_position_shift_config(pos.name)
        shift     == IF shift_cfg # NoneVal THEN Get(shift_cfg) ELSE GenericDinnerShift
        needed    == DefaultNeeded(Len(SelectByPosition(emps, pos_id)))
    IN  [business_date |-> date, shift_type |-> "dinner", position_id |-> pos_id,
         employees_needed |-> needed, hours_per_employee |-> shift.hours,
         total_hours |-> needed * shift.hours,
         total_cost |-> needed * shift.hours * pos.base_hourly_rate,
         shift_start |-> shift.start, shift_end |-> shift.end,
         shift_label |-> pos.name]

\* the requirements of one date: a position that is not loaded is passed over
RECURSIVE DayRequirements(_, _, _)
DayRequirements(date, pos_ids, emps) ==
    IF pos_ids = <<>> THEN <<>>
    ELSE (IF Head(pos_ids) \in DOMAIN positions
          THEN <<DefaultRequirement(date, Head(pos_ids), emps)>> ELSE <<>>)
         \o DayRequirements(date, Tail(pos_ids), emps)

RECURSIVE WeekRequirements(_, _, _)
WeekRequirements(week_start, day_offset, emps) ==
    IF day_offset >= DaysPerWeek THEN <<>>
    ELSE DayRequirements(week_start + day_offset, PositionOrder(emps, {}), emps)
             \o WeekRequirements(week_start, day_offset + 1, emps)

generate_default_requirements(week_start, emps) ==
    IF emps = <<>> THEN <<>> ELSE WeekRequirements(week_start, 0, emps)

(***************************************************************************)
(* SpecFallback: generate_schedule with no stored requirements and no      *)
(* demand forecasts, for every roster of up to three active employees      *)
(***************************************************************************)
MaxRoster == 3
WeekStarts == {0, DaysPerWeek}
\* "pGone" is the position of an employee whose position is no longer active
RosterPositions == PositionIds \cup {"pGone"}
RosterIds == <<"e1", "e2", "e3", "e4">>
Rosters ==
    UNION {{[i \in 1..n |-> [id |-> RosterIds[i], primary_position_id |-> f[i],
                             max_hours_per_week |-> NoneVal]] :
               f \in [1..n -> RosterPositions]} : n \in 0..MaxRoster}

InitFallback ==
    /\ WavesIdle
    /\ StoreIdle
    /\ PosIdle
    /\ CallIdle
    /\ employees \in Rosters
    /\ requirements = <<>>
    /\ manager_adjustments = <<>>
    /\ sorted_reqs = <<>>
    /\ emp_weekly_hours = <<>>
    /\ emp_daily_shifts = <<>>
    /\ schedule_assignments = <<>>
    /\ total_hours = 0
    /\ total_cost = 0
    /\ unfilled = 0
    /\ eligible_sorted = <<>>
    /\ assigned_count = 0
    /\ ri = 0
    /\ ei = 0
    /\ schedPc = "load"
    /\ schedResult = NoneVal

\* lines 1271-1290: nothing loaded and no forecast, so the defaults are the
\* requirements; with none of them the run ends without a schedule
FallbackRequirements(week_start) ==
    LET reqs == generate_default_requirements(week_start, employees)
    IN  /\ schedPc = "load"
        /\ requirements = <<>>
        /\ requirements' = reqs
        /\ schedPc' = IF reqs = <<>> THEN "done" ELSE "sort"
        /\ call_args' = <<week_start>>
        /\ call_result' = Some(reqs)
        /\ UNCHANGED <<employees, manager_adjustments, sorted_reqs, emp_weekly_hours, emp_daily_shifts,
                       schedule_assignments, total_hours, total_cost, unfilled,
                       eligible_sorted, assigned_count, ri, ei, schedResult>>
        /\ UNCHANGED <<wavesVars, storeVars, posVars>>

NextFallback == \E week_start \in WeekStarts : FallbackRequirements(week_start)

SpecFallback == InitFallback /\ [][NextFallback]_vars

\* the active employees of a position
Staff(pos_id) == {i \in DOMAIN employees : employees[i].primary_position_id = pos_id}

\* the requirements of the run for a date and a position
RequirementsFor(date, pos_id) ==
    {i \in DOMAIN requirements :
        requirements[i].business_date = date /\ requirements[i].position_id = pos_id}

\* the dinner template of each role
TemplateShift(pos_id) ==
    CASE pos_id = "pServer"  -> [start |-> At(16, 30), end |-> At(23, 0), hours |-> 26]
      [] pos_id = "pManager" -> [start |-> At(16, 0), end |-> At(24, 0), hours |-> 32]
      [] pos_id = "pHost"    -> [start |-> At(16, 30), end |-> At(22, 30), hours |-> 24]

\* C20: with no demand signal the fallback emits, for each of the 7 days and
\* each position that has active employees, exactly one requirement with
\* headcount 2 on that role's template shift.
C20_TwoPerPositionPerDay ==
    call_result # NoneVal =>
        \A d \in 0..(DaysPerWeek - 1), pos_id \in PositionIds :
            Staff(pos_id) # {} =>
                /\ Cardinality(RequirementsFor(call_args[1] + d, pos_id)) = 1
                /\ \A i \in RequirementsFor(call_args[1] + d, pos_id) :
                      /\ requirements[i].employees_needed = 2
                      /\ requirements[i].shift_start = TemplateShift(pos_id).start
                      /\ requirements[i].shift_end = TemplateShift(pos_id).end
                      /\ requirements[i].hours_per_employee = TemplateShift(pos_id).hours

\* C20 (amended): the headcount is 2 for a position with two or more active
\* employees and 1 for a position with one; a position that is not active
\* gets no requirement, and nothing else is emitted.
C20_UpToTwoPerPositionPerDay ==
    call_result # NoneVal =>
        /\ \A d \in 0..(DaysPerWeek - 1), pos_id \in PositionIds :
              Staff(pos_id) # {} =>
                  /\ Cardinality(RequirementsFor(call_args[1] + d, pos_id)) = 1
                  /\ \A i \in RequirementsFor(call_args[1] + d, pos_id) :
                        /\ requirements[i].employees_needed
                              = IF Cardinality(Staff(pos_id)) >= 2 THEN 2 ELSE 1
                        /\ requirements[i].shift_type = "dinner"
                        /\ requirements[i].shift_start = TemplateShift(pos_id).start
                        /\ requirements[i].shift_end = TemplateShift(pos_id).end
                        /\ requirements[i].hours_per_employee = TemplateShift(pos_id).hours
        /\ Len(requirements)
              = DaysPerWeek * Cardinality({p \in PositionIds : Staff(p) # {}})
        /\ requirements = Get(call_result)

\* witness: a roster of two servers and a shift manager got fourteen
\* requirements, two servers and one manager a day
C20_Witness ==
    /\ call_result # NoneVal
    /\ Len(employees) = 3
    /\ Cardinality(Staff("pServer")) = 2
    /\ Cardinality(Staff("pManager")) = 1
    /\ Len(requirements) = 2 * DaysPerWeek
    /\ \E i, j \in DOMAIN requirements :
          /\ requirements[i].position_id = "pServer"
          /\ requirements[i].employees_needed = 2
          /\ requirements[j].position_id = "pManager"
          /\ requirements[j].employees_needed = 1
          /\ requirements[i].business_date = requirements[j].business_date


(***************************************************************************)
(* Order of the waves (SpecWaves)                                          *)
(***************************************************************************)
\* C21: the waves come in non-decreasing order of arrival and of departure:
\* of two waves, the one whose workers arrived earlier never leaves later
\* than the one whose workers arrived after them.
C21_WavesFirstInFirstOut ==
    wavesDone =>
        \A i, j \in DOMAIN waves :
            /\ i < j => /\ WaveArrival(waves[i]) <= WaveArrival(waves[j])
                        /\ WaveDeparture(waves[i]) <= WaveDeparture(waves[j])
            /\ WaveArrival(waves[i]) < WaveArrival(waves[j])
                  => WaveDeparture(waves[i]) <= WaveDeparture(waves[j])

\* witness: one worker at the first hour, a second at the next, one cut at
\* the third: the first to arrive is the first to leave
C21_Witness ==
    /\ wavesDone
    /\ hourly_counts # ExampleCurve
    /\ Len(waves) = 2
    /\ WaveArrival(waves[1]) < WaveArrival(waves[2])
    /\ WaveDeparture(waves[1]) < WaveDeparture(waves[2])
    /\ WaveArrival(waves[2]) < WaveDeparture(waves[1])


(***************************************************************************)
(* The hour statuses and the coverage of a backtest result (SpecBacktest)  *)
(***************************************************************************)
\* the hours of a result whose status is the given one
HoursWithStatus(r, status) ==
    Cardinality({i \in DOMAIN r.hourly_detail : r.hourly_detail[i].status = status})

\* C22: in a stored backtest result every scored hour is adequate iff
\* 0 <= delta <= 1, overstaffed iff delta > 1 and understaffed iff delta < 0,
\* with delta = recommended - ceil(actual / ratio); coverage_pct (tenths of a
\* percent) is 100 x adequate hours / hours_analyzed, and hours_adequate +
\* hours_overstaffed + hours_understaffed = hours_analyzed.
C22_StatusAndCoverage ==
    \A r \in BagToSet(backtest_results) :
        /\ \A i \in DOMAIN r.hourly_detail :
              LET h == r.hourly_detail[i]
              IN  /\ h.delta = h.recommended_servers
                                 - (IF h.actual_covers > 0
                                    THEN CeilDiv(h.actual_covers, DEFAULT_COVERS_PER_SERVER)
                                    ELSE 0)
                  /\ (h.status = "adequate") <=> (0 <= h.delta /\ h.delta <= 1)
                  /\ (h.status = "overstaffed") <=> (h.delta > 1)
                  /\ (h.status = "understaffed") <=> (h.delta < 0)
        /\ r.hours_analyzed = Len(r.hourly_detail)
        /\ r.coverage_pct * r.hours_analyzed = 1000 * HoursWithStatus(r, "adequate")
        /\ r.hours_adequate + r.hours_overstaffed + r.hours_understaffed = r.hours_analyzed


(***************************************************************************)
(* Staffing alerts of a post-close check (SpecAlerts)                      *)
(***************************************************************************)
\* the alerts of one type and hour among the alerts a check returned
AlertsOfType(alerts, type, hour) ==
    {a \in alerts : a.alert_type = type /\ a.hour_slot = Some(hour)}

\* the servers an hour needed: ceil(actual covers / ratio), 0 without covers
NeededServers(s) ==
    IF s.active_covers > 0 THEN CeilDiv(s.active_covers, DEFAULT_COVERS_PER_SERVER) ELSE 0

\* what a check must return for one compared hour that is in the rule's scope
StaffingRule(alerts, p, s, scope) ==
    LET needed      == NeededServers(s)
        recommended == p.servers_buffered
        under       == AlertsOfType(alerts, "understaffed", p.hour_slot)
        over        == AlertsOfType(alerts, "overstaffed", p.hour_slot)
    IN  /\ (under # {}) <=> (scope /\ needed - recommended > 2)
        /\ (over # {}) <=> (scope /\ recommended - needed > 3)
        /\ Cardinality(under) <= 1 /\ Cardinality(over) <= 1
        /\ under = {} \/ over = {}
        /\ \A a \in under :
              a.severity = IF needed - recommended > 4 THEN "critical" ELSE "warning"
        /\ \A a \in over : a.severity = "info"

\* C23: for every hour with a profile row and a snapshot row, check_date
\* emits an understaffed alert iff needed - recommended > 2 (critical iff
\* > 4, else warning), an overstaffed info alert iff recommended - needed
\* > 3, and never both for the same hour.
C23_StaffingAlerts ==
    [][\A i \in AlertInputs :
          CheckDate(i[1], i[2]) =>
              \A x \in ComparedHours(i[1], i[2]) :
                  StaffingRule(Get(call_result'), x[1], x[2], TRUE)]_vars

\* C23 (amended): the same for the hours that needed at least one server and
\* have a positive recommendation; an hour without covers gets neither alert.
C23_StaffingAlertsOfBusyHours ==
    [][\A i \in AlertInputs :
          CheckDate(i[1], i[2]) =>
              \A x \in ComparedHours(i[1], i[2]) :
                  StaffingRule(Get(call_result'), x[1], x[2],
                               NeededServers(x[2]) > 0 /\ x[1].servers_buffered > 0)]_vars

\* witness: a check returned a critical understaffed alert for 19:00 (10
\* servers needed, 3 recommended) and nothing about staffing for 18:00
C23_Witness ==
    /\ call_result # NoneVal
    /\ call_args = <<"v1", StartDay>>
    /\ \E x \in ComparedHours("v1", StartDay) :
          /\ x[1].hour_slot = 19 /\ x[1].servers_buffered = 3 /\ NeededServers(x[2]) = 10
          /\ \E a \in Get(call_result) :
                /\ AlertsOfType(Get(call_result), "understaffed", 19) = {a}
                /\ a.severity = "critical"
    /\ AlertsOfType(Get(call_result), "understaffed", 18) = {}
    /\ AlertsOfType(Get(call_result), "overstaffed", 18) = {}

\* a check returned an overstaffed alert
C23_WitnessOverstaffed ==
    /\ call_result # NoneVal
    /\ \E a \in Get(call_result) : a.alert_type = "overstaffed" /\ a.severity = "info"

(***************************************************************************)
(* SMART MODE OF generate_schedule  (auto_scheduler.py)                    *)
(*                                                                         *)
(* With demand forecasts and no stored requirements the run reads the      *)
(* manager feedback, computes the smart requirements and passes them       *)
(* through _apply_service_quality_constraints and then through             *)
(* _apply_manager_feedback_adjustments before the greedy fill.             *)
(* Position names and shift labels are lower-cased word sequences; the     *)
(* ratios are kept in hundredths (math.ceil(n * 0.5) and                   *)
(* math.ceil(n * 0.33) agree with the exact quotients for every n below    *)
(* 2000).                                                                  *)
(***************************************************************************)
FloorPositionIds == {"pServer", "pBusser", "pRunner"}
floor_positions ==
    [p \in FloorPositionIds |->
        CASE p = "pServer" -> [name |-> <<"server">>, base_hourly_rate |-> 15]
          [] p = "pBusser" -> [name |-> <<"busser">>, base_hourly_rate |-> 12]
          [] p = "pRunner" -> [name |-> <<"food", "runner">>, base_hourly_rate |-> 13]]

\* DEFAULT_SERVICE_QUALITY, in hundredths
BusserToServerRatio == 50
RunnerToServerRatio == 33
RatioScale == 100

\* _fetch_manager_feedback: the look-back window and the number of overrides
\* in one direction that make an adjustment
FeedbackWindowDays == 90
FeedbackThreshold == 3

\* db.select('manager_feedback', ..., feedback_type='eq.override',
\* business_date='gte.<cutoff>')
select_manager_feedback(table, now) ==
    SelectSeq(table, LAMBDA r : /\ r.feedback_type = "override"
                                 /\ r.business_date >= now - FeedbackWindowDays)

FeedbackKey(r) == <<r.position_name, r.shift_type, DayOfWeek(r.business_date)>>

\* override_counts[key][direction] after the loop over the rows
RECURSIVE OverrideCount(_, _, _)
OverrideCount(rows, key, action) ==
    IF rows = <<>> THEN 0
    ELSE LET r == Head(rows)
             counted == /\ ~(r.position_name = <<>> /\ r.action = "")
                        /\ FeedbackKey(r) = key
                        /\ r.action = action
         IN  (IF counted THEN 1 ELSE 0) + OverrideCount(Tail(rows), key, action)

\* self.manager_adjustments after _fetch_manager_feedback
fetch_manager_feedback(table, now) ==
    LET rows == select_manager_feedback(table, now)
        keys == {FeedbackKey(rows[i]) :
                    i \in {j \in DOMAIN rows :
                             ~(rows[j].position_name = <<>> /\ rows[j].action = "")}}
        added(k) == OverrideCount(rows, k, "added_shift")
        removed(k) == OverrideCount(rows, k, "shift_removed")
        plus(k) == added(k) >= FeedbackThreshold /\ added(k) > removed(k)
        minus(k) == removed(k) >= FeedbackThreshold /\ removed(k) > added(k)
    IN  [k \in {k \in keys : plus(k) \/ minus(k)} |-> IF plus(k) THEN 1 ELSE -1]

\* one requirement after the feedback pass
AdjustRequirement(req, adjustments) ==
    LET key == <<floor_positions[req.position_id].name, req.shift_type,
                 DayOfWeek(req.business_date)>>
        delta == IF key \in DOMAIN adjustments THEN adjustments[key] ELSE 0
        needed == Max2(1, req.employees_needed + delta)
    IN  IF delta # 0
        THEN [req EXCEPT !.employees_needed = needed,
                         !.total_hours = needed * req.hours_per_employee,
                         !.total_cost = needed * req.hours_per_employee
                                          * floor_positions[req.position_id].base_hourly_rate]
        ELSE req

apply_manager_feedback_adjustments(reqs, adjustments) ==
    IF DOMAIN adjustments = {} THEN reqs
    ELSE [i \in DOMAIN reqs |-> AdjustRequirement(reqs[i], adjustments)]

\* the three role filters of the service-quality pass (every smart
\* requirement carries a shift_label)
IsServerReq(r) ==
    ContainsWords(r.shift_label, <<"server">>) /\ ~ContainsWords(r.shift_label, <<"food">>)
IsBusserReq(r) ==
    ContainsWords(r.shift_label, <<"busser">>) \/ ContainsWords(r.shift_label, <<"bus">>)
IsRunnerReq(r) ==
    ContainsWords(r.shift_label, <<"runner">>) \/ ContainsWords(r.shift_label, <<"food", "runner">>)

\* groups[(business_date, shift_type)], as indices of the list
GroupOf(reqs, date, shift) ==
    {i \in DOMAIN reqs : reqs[i].business_date = date /\ reqs[i].shift_type = shift}

HeadcountOf(reqs, idxs) ==
    SumSeq([i \in DOMAIN reqs |-> IF i \in idxs THEN reqs[i].employees_needed ELSE 0])

\* max(role_reqs, key=employees_needed): the first of the largest
Biggest(reqs, idxs) ==
    CHOOSE i \in idxs :
        \A j \in idxs : \/ reqs[j].employees_needed < reqs[i].employees_needed
                        \/ (reqs[j].employees_needed = reqs[i].employees_needed /\ i <= j)

\* the ratio check of one role: the deficit goes to the biggest requirement
RaiseToMinimum(reqs, idxs, minimum, total) ==
    IF total < minimum /\ idxs # {}
    THEN LET b == Biggest(reqs, idxs)
             needed == reqs[b].employees_needed + (minimum - total)
         IN  [reqs EXCEPT ![b] =
                 [reqs[b] EXCEPT !.employees_needed = needed,
                                 !.total_hours = needed * reqs[b].hours_per_employee,
                                 !.total_cost = needed * reqs[b].hours_per_employee
                                     * floor_positions[reqs[b].position_id].base_hourly_rate]]
    ELSE reqs

\* the body of the loop over the groups, for one group
QualityGroup(reqs, date, shift) ==
    LET g == GroupOf(reqs, date, shift)
        covers == IF g = {} THEN 0
                  ELSE CHOOSE c \in {reqs[i].predicted_covers : i \in g} :
                          \A i \in g : reqs[i].predicted_covers <= c
        servers == {i \in g : IsServerReq(reqs[i])}
        bussers == {i \in g : IsBusserReq(reqs[i])}
        runners == {i \in g : IsRunnerReq(reqs[i])}
        total_servers == HeadcountOf(reqs, servers)
        total_bussers == HeadcountOf(reqs, bussers)
        total_runners == HeadcountOf(reqs, runners)
        min_bussers == CeilDiv(total_servers * BusserToServerRatio, RatioScale)
        min_runners == CeilDiv(total_servers * RunnerToServerRatio, RatioScale)
        bussed == RaiseToMinimum(reqs, bussers, min_bussers, total_bussers)
    IN  IF covers < 1 THEN reqs
        ELSE RaiseToMinimum(bussed, runners, min_runners, total_runners)

\* a pass that raises every busser requirement of the group by the deficit
ApplyServiceQualityToAll(reqs) ==
    [i \in DOMAIN reqs |->
        LET g == GroupOf(reqs, reqs[i].business_date, reqs[i].shift_type)
            total_servers == HeadcountOf(reqs, {j \in g : IsServerReq(reqs[j])})
            bussers == {j \in g : IsBusserReq(reqs[j])}
            deficit == CeilDiv(total_servers * BusserToServerRatio, RatioScale)
                          - HeadcountOf(reqs, bussers)
        IN  IF i \in bussers /\ deficit > 0
            THEN [reqs[i] EXCEPT !.employees_needed = @ + deficit]
            ELSE reqs[i]]

\* the groups hold disjoint requirements, so each requirement is the one its
\* own group's pass leaves
apply_service_quality_constraints(reqs) ==
    [i \in DOMAIN reqs |-> QualityGroup(reqs, reqs[i].business_date, reqs[i].shift_type)[i]]

(***************************************************************************)
(* SpecSmart: one smart-mode run up to the greedy fill                     *)
(***************************************************************************)
MaxOverrides == 4
MaxWaveCount == 2
\* the week being scheduled starts on a Monday, the run is five days before;
\* one Friday is inside the feedback window and one before it
SmartWeekStart == 15 * DaysPerWeek
SmartFriday == SmartWeekStart + 4
SmartSaturday == SmartWeekStart + 5
SmartToday == SmartWeekStart - 5
RecentFriday == SmartFriday - 2 * DaysPerWeek
OldFriday == SmartFriday - 15 * DaysPerWeek

FeedbackRow(name, date, action, type) ==
    [position_name |-> name, shift_type |-> "dinner", business_date |-> date,
     action |-> action, feedback_type |-> type]

\* rows no adjustment may come from: overrides older than the window, rows
\* that are no overrides, an override of another weekday, an empty row
OtherFeedback(name) ==
    [k \in 1 .. FeedbackThreshold |-> FeedbackRow(name, OldFriday, "added_shift", "override")]
    \o [k \in 1 .. FeedbackThreshold |-> FeedbackRow(name, RecentFriday, "added_shift", "approval")]
    \o << FeedbackRow(name, RecentFriday + 1, "added_shift", "override"),
          FeedbackRow(<<>>, RecentFriday, "", "override") >>

FeedbackTable(name, added, removed, others) ==
    [k \in 1 .. added |->
        FeedbackRow(name, RecentFriday - DaysPerWeek * (k % 2), "added_shift", "override")]
    \o (IF others THEN OtherFeedback(name) ELSE <<>>)
    \o [k \in 1 .. removed |-> FeedbackRow(name, RecentFriday, "shift_removed", "override")]

FeedbackTables ==
    {FeedbackTable(floor_positions[p].name, a, r, o) :
        p \in {"pServer", "pBusser"}, a \in 0 .. MaxOverrides, r \in 0 .. MaxOverrides,
        o \in BOOLEAN}

\* a requirement of a six-hour dinner shift (in quarter hours) for 120 covers
SmartReq(pos_id, date, suffix, needed) ==
    [business_date |-> date, shift_type |-> "dinner", position_id |-> pos_id,
     employees_needed |-> needed, hours_per_employee |-> 24,
     total_hours |-> needed * 24,
     total_cost |-> needed * 24 * floor_positions[pos_id].base_hourly_rate,
     shift_label |-> floor_positions[pos_id].name \o suffix,
     predicted_covers |-> 120]

\* what _calculate_smart_requirements can return for a Friday dinner: one
\* requirement per server wave, the bussers as one requirement or as an
\* opener and a closer, at most one runner requirement, every headcount at
\* least 1; and a Saturday dinner with servers only
WaveCounts(lo) == UNION {[1 .. n -> 1 .. MaxWaveCount] : n \in lo .. 2}
ServerWaveCounts == UNION {[1 .. n -> {1, MaxWaveCount, 4 * MaxWaveCount}] : n \in 1 .. 2}
RoleReqs(pos_id, date, counts) ==
    [k \in DOMAIN counts |->
        SmartReq(pos_id, date, IF Len(counts) = 1 THEN <<>> ELSE <<IF k = 1 THEN "(open)" ELSE "(close)">>, counts[k])]
SmartRequirementLists ==
    {RoleReqs("pServer", SmartFriday, sv) \o RoleReqs("pBusser", SmartFriday, bs)
        \o RoleReqs("pRunner", SmartFriday, rn) \o RoleReqs("pServer", SmartSaturday, sat) :
        sv \in ServerWaveCounts, bs \in WaveCounts(0),
        rn \in {<<>>, <<1>>}, sat \in {<<>>, <<MaxWaveCount>>}}

InitSmart ==
    /\ WavesIdle
    /\ SaveIdle
    /\ AlertsIdle
    /\ ForecastIdle
    /\ PosIdle
    /\ CallIdle
    /\ today = SmartToday
    /\ hourly_snapshots = EmptyBag
    /\ staffing_profiles = EmptyBag
    /\ backtest_results = EmptyBag
    /\ train_weeks = 0
    /\ rolling_results = <<>>
    /\ backtest_runs = 0
    /\ builds = <<>>
    /\ employees = <<>>
    /\ requirements = <<>>
    /\ manager_adjustments = <<>>
    /\ sorted_reqs = <<>>
    /\ emp_weekly_hours = <<>>
    /\ emp_daily_shifts = <<>>
    /\ schedule_assignments = <<>>
    /\ total_hours = 0
    /\ total_cost = 0
    /\ unfilled = 0
    /\ eligible_sorted = <<>>
    /\ assigned_count = 0
    /\ ri = 0
    /\ ei = 0
    /\ schedPc = "load"
    /\ schedResult = NoneVal

SmartFrame ==
    UNCHANGED <<employees, sorted_reqs, emp_weekly_hours, emp_daily_shifts,
                schedule_assignments, total_hours, total_cost, unfilled, eligible_sorted,
                assigned_count, ri, ei, schedResult, wavesVars, storeVars, posVars>>

\* self._fetch_manager_feedback(), with the rows of the venue in the table
FetchManagerFeedback(table) ==
    /\ schedPc = "load"
    /\ manager_adjustments' = fetch_manager_feedback(table, today)
    /\ call_args' = table
    /\ schedPc' = "smart"
    /\ UNCHANGED <<requirements, call_result>>
    /\ SmartFrame

\* self.requirements = self._calculate_smart_requirements(week_start_date)
CalculateSmartRequirements(reqs) ==
    /\ schedPc = "smart"
    /\ requirements = <<>>
    /\ requirements' = reqs
    /\ schedPc' = "quality"
    /\ UNCHANGED <<manager_adjustments, callVars>>
    /\ SmartFrame

\* self.requirements = self._apply_service_quality_constraints(self.requirements)
ApplyServiceQualityConstraints ==
    /\ schedPc = "quality"
    /\ requirements' = apply_service_quality_constraints(requirements)
    /\ schedPc' = "feedback"
    /\ UNCHANGED <<manager_adjustments, callVars>>
    /\ SmartFrame

\* self.requirements = self._apply_manager_feedback_adjustments(self.requirements);
\* _validate_against_staffing_patterns only prints, the greedy fill is next
ApplyManagerFeedbackAdjustments ==
    /\ schedPc = "feedback"
    /\ requirements' = apply_manager_feedback_adjustments(requirements, manager_adjustments)
    /\ schedPc' = "sort"
    /\ UNCHANGED <<manager_adjustments, callVars>>
    /\ SmartFrame

NextSmart ==
    \/ \E table \in FeedbackTables : FetchManagerFeedback(table)
    \/ \E reqs \in SmartRequirementLists : CalculateSmartRequirements(reqs)
    \/ ApplyServiceQualityConstraints
    \/ ApplyManagerFeedbackAdjustments

SpecSmart == InitSmart /\ [][NextSmart]_vars

\* the (position, shift type, date) cells of a requirement list
CellsOf(reqs) ==
    {<<reqs[i].position_id, reqs[i].shift_type, reqs[i].business_date>> : i \in DOMAIN reqs}

CellTotal(reqs, cell) ==
    HeadcountOf(reqs, {i \in DOMAIN reqs :
        <<reqs[i].position_id, reqs[i].shift_type, reqs[i].business_date>> = cell})

\* the overrides of the last 90 days of a cell's (role, shift, weekday), by direction
CellOverrides(cell, action) ==
    OverrideCount(select_manager_feedback(call_args, today),
                  <<floor_positions[cell[1]].name, cell[2], DayOfWeek(cell[3])>>, action)

\* C24: the feedback pass changes the total headcount of every (role, shift
\* type, date) cell by -1, 0 or +1, by +1 only on at least three 'added'
\* overrides that outnumber the 'removed' ones and by -1 only on at least
\* three 'removed' overrides that outnumber the 'added' ones, also when
\* several requirements cover the cell
C24_CellChangesByAtMostOne ==
    [][(schedPc = "feedback" /\ schedPc' = "sort") =>
         \A cell \in CellsOf(requirements) :
            LET change == CellTotal(requirements', cell) - CellTotal(requirements, cell)
                added == CellOverrides(cell, "added_shift")
                removed == CellOverrides(cell, "shift_removed")
            IN  /\ change \in {-1, 0, 1}
                /\ change = 1 => (added >= FeedbackThreshold /\ added > removed)
                /\ change = -1 => (removed >= FeedbackThreshold /\ removed > added)]_vars

\* the requirements of a role in a (date, shift type) group
RoleOf(reqs, date, shift, role) ==
    {i \in GroupOf(reqs, date, shift) :
        CASE role = "server" -> IsServerReq(reqs[i])
          [] role = "busser" -> IsBusserReq(reqs[i])
          [] role = "runner" -> IsRunnerReq(reqs[i])}

RoleRatio(role) == IF role = "busser" THEN BusserToServerRatio ELSE RunnerToServerRatio

\* the role's headcount that the ratio asks for in a group
RoleMinimum(reqs, date, shift, role) ==
    CeilDiv(HeadcountOf(reqs, RoleOf(reqs, date, shift, "server")) * RoleRatio(role), RatioScale)

GroupsOf(reqs) == {<<reqs[i].business_date, reqs[i].shift_type>> : i \in DOMAIN reqs}

\* C25: after the service-quality pass every (date, shift type) group with
\* covers and with busser (runner) requirements has at least
\* ceil(ratio x servers) bussers (runners); the deficit went to one of the
\* largest requirements of the role and no other headcount changed
C25_RatioMetByLargestRequirement ==
    [][(schedPc = "quality" /\ schedPc' = "feedback") =>
         /\ DOMAIN requirements' = DOMAIN requirements
         /\ \A i \in DOMAIN requirements :
               (~IsBusserReq(requirements[i]) /\ ~IsRunnerReq(requirements[i]))
                  => requirements'[i] = requirements[i]
         /\ \A g \in GroupsOf(requirements) : \A role \in {"busser", "runner"} :
               LET idxs == RoleOf(requirements, g[1], g[2], role)
                   minimum == RoleMinimum(requirements, g[1], g[2], role)
                   deficit == Max2(0, minimum - HeadcountOf(requirements, idxs))
               IN  idxs # {} =>
                     /\ HeadcountOf(requirements', RoleOf(requirements', g[1], g[2], role))
                           >= RoleMinimum(requirements', g[1], g[2], role)
                     /\ \E b \in idxs :
                          /\ \A j \in idxs : requirements[j].employees_needed
                                                <= requirements[b].employees_needed
                          /\ \A j \in idxs :
                                requirements'[j].employees_needed
                                   = requirements[j].employees_needed
                                        + (IF j = b THEN deficit ELSE 0)]_vars

\* witness: with 9 servers in two waves the pass has raised the closer of a
\* one-busser opener and a two-busser closer to 4 and the runner requirement
\* from 1 to 3, and left the opener alone
C25_Witness ==
    /\ schedPc = "feedback"
    /\ HeadcountOf(requirements, RoleOf(requirements, SmartFriday, "dinner", "server")) = 9
    /\ \E i, j, k \in DOMAIN requirements :
          /\ IsBusserReq(requirements[i]) /\ IsBusserReq(requirements[j]) /\ i < j
          /\ requirements[i].employees_needed = 1
          /\ requirements[j].employees_needed = 4
          /\ IsRunnerReq(requirements[k])
          /\ requirements[k].employees_needed = 3

\* C26: the requirements handed to the greedy fill in smart mode satisfy the
\* busser and the runner ratio in every (date, shift type) group that has
\* requirements of the role
C26_RatiosHoldAtGreedyFill ==
    schedPc = "sort" =>
        \A g \in GroupsOf(requirements) : \A role \in {"busser", "runner"} :
            RoleOf(requirements, g[1], g[2], role) # {} =>
                HeadcountOf(requirements, RoleOf(requirements, g[1], g[2], role))
                    >= RoleMinimum(requirements, g[1], g[2], role)

(***************************************************************************)
(* STAGGERED SHIFTS  (labor_optimizer/core/staffing.py,                    *)
(* compute_stagger_schedule)                                               *)
(*                                                                         *)
(* The first scan of the function (active, shift_map) feeds nothing into   *)
(* the result and is left out; active_detailed holds (start, end) pairs of *)
(* which only the start is ever read, so it is kept as the start hours.    *)
(***************************************************************************)
StaggerRoles == <<"servers", "bartenders">>

\* role.rstrip("s")
RoleName(role) == IF role = "servers" THEN "server" ELSE "bartender"

ShiftRecord(role, start, end) ==
    [role |-> RoleName(role), start_hour |-> start, end_hour |-> end, hours |-> end - start]

\* the second scan over the hourly entries for one role: the staff still on
\* the floor and the shift records appended so far
RECURSIVE StaggerScan(_, _, _, _, _)
StaggerScan(entries, role, shift_length_hours, active_detailed, shifts) ==
    IF entries = <<>> THEN [active_detailed |-> active_detailed, shifts |-> shifts]
    ELSE LET hour == Head(entries).hour
             needed == Head(entries)[role]
             kept == SelectSeq(active_detailed, LAMBDA s : hour - s < shift_length_hours)
             current == Len(kept)
             to_cut == current - needed
         IN  IF needed > current
             THEN StaggerScan(Tail(entries), role, shift_length_hours,
                              kept \o [k \in 1 .. needed - current |-> hour], shifts)
             ELSE IF needed < current
             THEN StaggerScan(Tail(entries), role, shift_length_hours,
                              SubSeq(kept, to_cut + 1, current),
                              shifts \o [k \in 1 .. to_cut |-> ShiftRecord(role, kept[k], hour)])
             ELSE StaggerScan(Tail(entries), role, shift_length_hours, kept, shifts)

\* the shifts of one role: the cuts, then the staff left at the end closed at
\* the last hour + 1
RoleShifts(hourly_staffing, role, shift_length_hours) ==
    LET scan == StaggerScan(hourly_staffing, role, shift_length_hours, <<>>, <<>>)
        last_hour == hourly_staffing[Len(hourly_staffing)].hour + 1
    IN  IF hourly_staffing = <<>> THEN scan.shifts
        ELSE scan.shifts \o [k \in DOMAIN scan.active_detailed |->
                                ShiftRecord(role, scan.active_detailed[k], last_hour)]

compute_stagger_schedule(hourly_staffing, shift_length_hours) ==
    RoleShifts(hourly_staffing, StaggerRoles[1], shift_length_hours)
        \o RoleShifts(hourly_staffing, StaggerRoles[2], shift_length_hours)

(***************************************************************************)
(* SpecStagger: one call of compute_stagger_schedule                       *)
(***************************************************************************)
MaxStaggerHours == 3
MaxStaggerStaff == 2
FirstStaggerHour == DEFAULT_OPEN_HOUR
DefaultShiftLength == 6

\* curves of consecutive hours, and one server kept on the floor for seven hours
StaggerCurves ==
    UNION {[1 .. n -> [servers : 0 .. MaxStaggerStaff, bartenders : 0 .. 1]] :
              n \in 0 .. MaxStaggerHours}
    \cup {[k \in 1 .. DefaultShiftLength + 1 |-> [servers |-> 1, bartenders |-> 0]]}

HourlyStaffing(curve) ==
    [k \in DOMAIN curve |-> [hour |-> FirstStaggerHour + k - 1, servers |-> curve[k].servers,
                             bartenders |-> curve[k].bartenders]]

StaggerInputs ==
    {[hourly_staffing |-> HourlyStaffing(c), shift_length_hours |-> l] :
        c \in StaggerCurves, l \in {2, DefaultShiftLength}}

InitStagger ==
    /\ WavesIdle
    /\ SchedIdle
    /\ StoreIdle
    /\ PosIdle
    /\ call_args \in {Some(a) : a \in StaggerInputs}
    /\ call_result = NoneVal

ComputeStaggerSchedule ==
    /\ call_result = NoneVal
    /\ call_result' = Some(compute_stagger_schedule(Get(call_args).hourly_staffing,
                                                    Get(call_args).shift_length_hours))
    /\ UNCHANGED call_args
    /\ UNCHANGED <<wavesVars, schedVars, storeVars, posVars>>

NextStagger == ComputeStaggerSchedule

SpecStagger == InitStagger /\ [][NextStagger]_vars

\* the staff additions of the scan for one role: at every hour the headcount
\* asked for beyond the staff kept from before
RECURSIVE StaffAdditions(_, _, _, _)
StaffAdditions(entries, role, shift_length_hours, on_floor) ==
    IF entries = <<>> THEN 0
    ELSE LET hour == Head(entries).hour
             needed == Head(entries)[role]
             kept == SelectSeq(on_floor, LAMBDA s : hour - s < shift_length_hours)
             added == Max2(0, needed - Len(kept))
             stay == IF needed < Len(kept) THEN SubSeq(kept, Len(kept) - needed + 1, Len(kept))
                     ELSE kept \o [k \in 1 .. added |-> hour]
         IN  added + StaffAdditions(Tail(entries), role, shift_length_hours, stay)

ShiftsOfRole(shifts, role) == SelectSeq(shifts, LAMBDA s : s.role = RoleName(role))

\* the staff of a role on the floor at an hour according to the returned shifts
ShiftOccupancy(shifts, role, hour) ==
    Len(SelectSeq(ShiftsOfRole(shifts, role),
                  LAMBDA s : s.start_hour <= hour /\ hour < s.end_hour))

\* C27: for each role the returned shifts are as many as the staff additions
\* of the scan, and the occupancy rebuilt from them equals the input
\* headcount at every hour
C27_OneShiftPerWorker ==
    call_result # NoneVal =>
        LET hs == Get(call_args).hourly_staffing
            shifts == Get(call_result)
        IN  \A r \in DOMAIN StaggerRoles :
              /\ Len(ShiftsOfRole(shifts, StaggerRoles[r]))
                    = StaffAdditions(hs, StaggerRoles[r], Get(call_args).shift_length_hours, <<>>)
              /\ \A k \in DOMAIN hs :
                    ShiftOccupancy(shifts, StaggerRoles[r], hs[k].hour) = hs[k][StaggerRoles[r]]

\* the same for the calls in which nobody reaches shift_length_hours
StaggerExactWithinLength ==
    (call_result # NoneVal
       /\ Len(Get(call_args).hourly_staffing) <= Get(call_args).shift_length_hours) =>
        LET hs == Get(call_args).hourly_staffing
            shifts == Get(call_result)
        IN  \A r \in DOMAIN StaggerRoles :
              /\ Len(ShiftsOfRole(shifts, StaggerRoles[r]))
                    = StaffAdditions(hs, StaggerRoles[r], Get(call_args).shift_length_hours, <<>>)
              /\ \A k \in DOMAIN hs :
                    ShiftOccupancy(shifts, StaggerRoles[r], hs[k].hour) = hs[k][StaggerRoles[r]]

\* the alerts staffing_alerts holds for a venue and a date
StoredAlerts(table, v, business_date) ==
    {r \in BagToSet(table) : r.venue_id = v /\ r.alert_date = business_date}

\* C28: after a run of check_date for a (venue, date) the alerts stored for
\* that (venue, date) are exactly the alerts the run returned, so an alert of
\* an earlier run whose condition no longer holds is gone
C28_StoredAlertsAreLatestRun ==
    [][\A i \in AlertInputs :
          CheckDate(i[1], i[2]) =>
              StoredAlerts(staffing_alerts', i[1], i[2]) = Get(call_result')]_vars

(***************************************************************************)
(* SpecBuilders: build_profiles runs of separate processes on one store.   *)
(* A run reads the snapshots and the latest stored version                 *)
(* (profile_builder.py lines 75-102), computes its rows, and writes them   *)
(* with one upsert (lines 148-153); the requests of other runs can come in *)
(* between.                                                                *)
(***************************************************************************)
BuilderIds == {"b1", "b2"}
BuilderInputs == {<<"v1", Some(1), Some(1)>>, <<"v1", NoneVal, Some(1)>>, <<"v2", NoneVal, Some(1)>>}
BuilderSnapshotInputs == {<<"v1", StartDay, Curve1>>, <<"v1", StartDay - DaysPerWeek, Curve2>>}

NoBuild == [pc |-> "idle"]

InitBuilders ==
    /\ WavesIdle
    /\ SchedIdle
    /\ PosIdle
    /\ CallIdle
    /\ SaveIdle
    /\ AlertsIdle
    /\ ForecastIdle
    /\ today = StartDay
    /\ hourly_snapshots = InitialSnapshots
    /\ staffing_profiles = EmptyBag
    /\ backtest_results = EmptyBag
    /\ train_weeks = 0
    /\ rolling_results = <<>>
    /\ backtest_runs = 0
    /\ builds = [b \in BuilderIds |-> NoBuild]

BuildersFrame ==
    /\ UNCHANGED <<today, backtest_results, train_weeks, rolling_results, backtest_runs>>
    /\ UNCHANGED <<wavesVars, schedVars, posVars, callVars, saveVars, alertVars, fcVars>>

\* the run reads the snapshots and the latest version and computes its rows
BuildRead(b, v, lookback_weeks, min_samples) ==
    /\ builds[b].pc = "idle"
    /\ NextVersion(v, staffing_profiles) <= MaxVersion
    /\ builds' = [builds EXCEPT ![b] =
          [pc |-> "write", venue_id |-> v,
           next_version |-> NextVersion(v, staffing_profiles),
           profiles |-> BuiltProfiles(v, lookback_weeks, min_samples, hourly_snapshots,
                                      staffing_profiles)]]
    /\ UNCHANGED <<hourly_snapshots, staffing_profiles>>
    /\ BuildersFrame

\* the run upserts its rows, if it has any, and returns
BuildWrite(b) ==
    /\ builds[b].pc = "write"
    /\ staffing_profiles' = IF builds[b].profiles = {} THEN staffing_profiles
                            ELSE upsert(staffing_profiles, builds[b].profiles, ProfileKey)
    /\ builds' = [builds EXCEPT ![b] = NoBuild]
    /\ UNCHANGED hourly_snapshots
    /\ BuildersFrame

BuildersSnapshots(v, d, hourly) ==
    /\ d <= today
    /\ hourly_snapshots' = build_snapshots(v, d, hourly, hourly_snapshots)
    /\ UNCHANGED <<staffing_profiles, builds>>
    /\ BuildersFrame

NextBuilders ==
    \/ \E b \in BuilderIds, i \in BuilderInputs : BuildRead(b, i[1], i[2], i[3])
    \/ \E b \in BuilderIds : BuildWrite(b)
    \/ \E i \in BuilderSnapshotInputs : BuildersSnapshots(i[1], i[2], i[3])

SpecBuilders == InitBuilders /\ [][NextBuilders]_vars

\* C29: a build never writes rows under a profile_version of the venue that
\* another build has written rows under, so no stored version mixes the rows
\* of two builds
C29_BuildsWriteDistinctVersions ==
    [][\A b \in BuilderIds :
          (BuildWrite(b) /\ builds[b].profiles # {}) =>
              ~\E r \in BagToSet(staffing_profiles) :
                  /\ r.venue_id = builds[b].venue_id
                  /\ r.profile_version = builds[b].next_version]_vars

\* runs that do not overlap always write under distinct versions
BuildsAlone ==
    [][\A b \in BuilderIds :
          (BuildWrite(b) /\ builds[b].profiles # {}
              /\ \A c \in BuilderIds \ {b} : builds[c].pc = "idle"
              /\ builds[b].next_version = NextVersion(builds[b].venue_id, staffing_profiles)) =>
              ~\E r \in BagToSet(staffing_profiles) :
                  /\ r.venue_id = builds[b].venue_id
                  /\ r.profile_version = builds[b].next_version]_vars

(***************************************************************************)
(* CSVCheckImporter  (pos_importer.py): fetch_checks filters the loaded    *)
(* file to the business date and gives a row without a check id the id     *)
(* csv-N, N being the number of checks of that date collected before it.   *)
(* A CSV row is the mapped row with its open time parsed: the day and the  *)
(* minute of the day.                                                      *)
(***************************************************************************)
MaxCsvRows == 2

\* f"csv-{len(checks)}"
CsvId(n) == <<"csv-0", "csv-1", "csv-2", "csv-3">>[n + 1]

RECURSIVE CsvFetchChecks(_, _, _)
CsvFetchChecks(csv_data, business_date, checks) ==
    IF csv_data = <<>> THEN checks
    ELSE LET row == Head(csv_data)
             check == RawCheck(IF row.external_check_id # NoneVal
                                 THEN Get(row.external_check_id) ELSE CsvId(Len(checks)),
                               row.open_time, row.close_time,
                               IF row.guest_count # NoneVal
                                 THEN Max2(1, Get(row.guest_count)) ELSE 1,
                               row.total_amount)
         IN  IF row.open_day # business_date
             THEN CsvFetchChecks(Tail(csv_data), business_date, checks)
             ELSE CsvFetchChecks(Tail(csv_data), business_date, Append(checks, check))

CsvRow(id, day, open_time, guest_count) ==
    [external_check_id |-> id, open_day |-> day, open_time |-> open_time,
     close_time |-> NoneVal, guest_count |-> guest_count, total_amount |-> NoneVal]

CsvRowChoices ==
    {CsvRow(id, d, t, g) : id \in {NoneVal, Some("A")}, d \in {Day1, Day2},
                           t \in {At(18, 0), At(19, 0)}, g \in {NoneVal, Some(4)}}

CsvFiles == UNION {[1 .. n -> CsvRowChoices] : n \in 1 .. MaxCsvRows}

\* the importer is constructed on a file; call_args holds its _csv_data
InitCsvImport ==
    /\ WavesIdle
    /\ SchedIdle
    /\ StoreIdle
    /\ pos_checks = EmptyBag
    /\ location_config = NoneVal
    /\ last_snapshots = NoneVal
    /\ call_args \in CsvFiles
    /\ call_result = NoneVal

\* import_date of the CSV importer; call_result is the number imported
CsvImportDate(business_date) ==
    LET fetched == CsvFetchChecks(call_args, business_date, <<>>)
    IN  /\ pos_checks' = import_date(PosVenue, "csv", business_date,
                                     {fetched[k] : k \in DOMAIN fetched},
                                     DEFAULT_DWELL_MINUTES, pos_checks)
        /\ call_result' = Some(Len(fetched))
        /\ UNCHANGED <<call_args, location_config, last_snapshots>>
        /\ UNCHANGED <<wavesVars, schedVars, storeVars>>

NextCsvImport == \E d \in {Day1, Day2} : CsvImportDate(d)

SpecCsvImport == InitCsvImport /\ [][NextCsvImport]_vars

\* C30: import_date(date) leaves every stored check of another business date
\* as it is, also when the CSV rows carry no check id
C30_OtherDatesUntouched ==
    [][\A d \in {Day1, Day2} :
          CsvImportDate(d) =>
              \A r \in BagToSet(pos_checks) :
                  r.business_date # d =>
                      CopiesIn(r, pos_checks') = CopiesIn(r, pos_checks)]_vars

\* the same for files in which every row carries its own check id
ChecksWithIdsUntouched ==
    [][\A d \in {Day1, Day2} :
          (CsvImportDate(d)
             /\ \A k, l \in DOMAIN call_args :
                   /\ call_args[k].external_check_id # NoneVal
                   /\ (k # l => call_args[k].external_check_id # call_args[l].external_check_id)) =>
              \A r \in BagToSet(pos_checks) :
                  r.business_date # d =>
                      CopiesIn(r, pos_checks') = CopiesIn(r, pos_checks)]_vars
====
